---- MODULE Spec2Model ----
(***************************************************************************)
(* Model of the dividend collector of data-guxi.                           *)
(*                                                                         *)
(*   SpecRun   : the sequential collector (part_002): listing, checkpoint  *)
(*               load, the per-entity loop, saveProgress, report and       *)
(*               clearProgress, with process stops and restarts.           *)
(*   SpecRetry : fetchWithRetry / smartPause, attempt by attempt, for the  *)
(*               sequential collector (part_002) and the batched one       *)
(*               (part_001).                                               *)
(*   SpecEntity: fetchStockData, request by request, for both collectors.  *)
(*   SpecBatch : the batched collector (part_001): listing, checkpoint     *)
(*               load, the batches, saveProgress, report, clearProgress.   *)
(*   SpecStore : saveProgress, loadProgress and clearProgress of both      *)
(*               collectors, called one after the other.                   *)
(*   SpecPace  : the loop of the sequential collector with the length    *)
(*               of its pauses.                                            *)
(*   SpecHistory : parseDividendHistory of part_000 over bounded lists of  *)
(*               dividend rows.                                            *)
(*   SpecLive  : one process of the sequential collector from its start   *)
(*               to its end, the listing call attempt by attempt, with    *)
(*               the fairness of a process that keeps running.            *)
(*   SpecStats : the sort of the record list and the statistics section    *)
(*               of the report, over bounded record lists.                 *)
(*                                                                         *)
(* Strings that the code inspects character by character (parseFloat) are  *)
(* tuples of one-character strings.                                        *)
(***************************************************************************)
EXTENDS Integers, Sequences, FiniteSets, TLC

(***************************************************************************)
(* Bounds of the model                                                     *)
(***************************************************************************)
\* number of entities of the listing
NumStocks == 3
\* number of process starts explored
MaxRuns == 3
\* number of fetchWithRetry calls explored in SpecRetry
MaxCalls == 2
\* CONFIG.SAVE_INTERVAL (100 in part_002, 500 in part_001), scaled down
SAVE_INTERVAL == 1
\* CONFIG.RETRY_TIMES (5 in part_002, 3 in part_001), scaled down
RETRY_TIMES == 2
\* CONFIG.MAX_CONSECUTIVE_ERRORS (10 in part_002), scaled down
MAX_CONSECUTIVE_ERRORS == 3
\* USER_AGENTS.length (11 in part_002), scaled down
NumUserAgents == 3
\* hours by which the clock advances while the process is stopped
TickHours == 2
\* CONFIG.BATCH_SIZE of part_001 (10), scaled down
BATCH_SIZE_P1 == 2
\* CONFIG.SAVE_INTERVAL of part_001 (500), scaled down to a multiple of
\* the batch size as in the source
SAVE_INTERVAL_P1 == 2
\* number of rows of the listing the batched collector gets
NumRows == 4
\* number of process starts explored for the batched collector
MaxBatchRuns == 2
\* number of rows of the listing in SpecPace
NumPaceRows == 4
\* longest list of dividend rows handed to parseDividendHistory
MaxHistoryRows == 3
\* greatest number of records of a collection handed to the statistics
MaxStatLen == 3
\* the 10 of slice(0, 10) in the top-10 lists, scaled down
TopN == 2

(***************************************************************************)
(* Program constants                                                       *)
(***************************************************************************)
BATCH_SIZE == 3
FILTER_NA == FALSE
MIN_DELAY == 500
MAX_DELAY == 1500
BATCH_DELAY == 2000
RETRY_DELAY == 3000
RATE_LIMIT_PAUSE == 30000
ERROR_PAUSE == 10000
LONG_PAUSE == 60000
\* loadProgress of part_002: age < 4 * 60 * 60 * 1000, in hours
StaleHours == 4
\* part_001
RETRY_DELAY_P1 == 1000
RATE_LIMIT_STEP_P1 == 5000
FORBIDDEN_STEP_P1 == 10000
\* loadProgress of part_001: age < 2 * 60 * 60 * 1000, in hours
StaleHoursP1 == 2

(***************************************************************************)
(* JavaScript values of the payload fields the code tests                  *)
(***************************************************************************)
Undefined == [t |-> "undefined", s |-> << >>, n |-> 0]
Str(chars) == [t |-> "string", s |-> chars, n |-> 0]
Num(k) == [t |-> "number", s |-> << >>, n |-> k]

Digits == {"0", "1", "2", "3", "4", "5", "6", "7", "8", "9"}

DigitVal(c) ==
  CASE c = "0" -> 0 [] c = "1" -> 1 [] c = "2" -> 2 [] c = "3" -> 3
    [] c = "4" -> 4 [] c = "5" -> 5 [] c = "6" -> 6 [] c = "7" -> 7
    [] c = "8" -> 8 [] c = "9" -> 9

\* index of the last character of the run of digits that starts at from
\* (from - 1 when there is none)
RECURSIVE DigitsEnd(_, _)
DigitsEnd(chars, from) ==
  IF from <= Len(chars) /\ chars[from] \in Digits
    THEN DigitsEnd(chars, from + 1)
    ELSE from - 1

RECURSIVE DigitsValue(_, _, _)
DigitsValue(chars, from, to) ==
  IF from > to THEN 0
  ELSE DigitsValue(chars, from, to - 1) * 10 + DigitVal(chars[to])

NaN == [nan |-> TRUE, v |-> 0]

\* parseFloat of a string: optional sign, digits, optional fraction; the
\* longest such prefix is converted, NaN when it holds no digit.  The value
\* is returned in hundredths.
ParseFloatChars(chars) ==
  LET signed == Len(chars) >= 1 /\ chars[1] \in {"-", "+"}
      start == IF signed THEN 2 ELSE 1
      intEnd == DigitsEnd(chars, start)
      hasDot == intEnd + 1 <= Len(chars) /\ chars[intEnd + 1] = "."
      fracEnd == IF hasDot THEN DigitsEnd(chars, intEnd + 2) ELSE intEnd
      intDigits == intEnd - start + 1
      fracDigits == IF hasDot THEN fracEnd - (intEnd + 1) ELSE 0
      intVal == DigitsValue(chars, start, intEnd)
      f1 == IF fracDigits >= 1 THEN DigitVal(chars[intEnd + 2]) ELSE 0
      f2 == IF fracDigits >= 2 THEN DigitVal(chars[intEnd + 3]) ELSE 0
      mag == intVal * 100 + f1 * 10 + f2
  IN IF intDigits = 0 /\ fracDigits = 0 THEN NaN
     ELSE [nan |-> FALSE,
           v |-> IF signed /\ chars[1] = "-" THEN 0 - mag ELSE mag]

\* parseFloat(x): the argument is converted to a string first
parseFloat(x) ==
  CASE x.t = "string" -> ParseFloatChars(x.s)
    [] x.t = "number" -> [nan |-> FALSE, v |-> x.n * 100]
    [] OTHER -> NaN

\* !x
Falsy(x) ==
  \/ x.t = "undefined"
  \/ x.t = "string" /\ x.s = << >>
  \/ x.t = "number" /\ x.n = 0

\* x === 'literal'
StrictEq(x, chars) == x.t = "string" /\ x.s = chars

(***************************************************************************)
(* The Data Source: what each per-entity endpoint answers.  A response is  *)
(* what fetchWithRetry hands to its caller: kind "null" (no payload),      *)
(* "nodata" (a payload without .data), "data", or for the PEG endpoint     *)
(* "malformed" (peGrowthChart is not an array, so .find throws).           *)
(***************************************************************************)
NoValue == << >>
C_NA == <<"N", "/", "A">>
C_Dashes == <<"-", "-">>
C_Zero == <<"0">>

DivResponse(kind, yield, annualizedDividend) ==
  [kind |-> kind, yield |-> yield, annualizedDividend |-> annualizedDividend]
ProfileResponse(kind, sector) == [kind |-> kind, sector |-> sector]
PegResponse(kind, y) == [kind |-> kind, y |-> y]
FinResponse(kind, latest, oldest, cagr) ==
  [kind |-> kind, latest |-> latest, oldest |-> oldest, cagr |-> cagr]

NullDiv == DivResponse("null", Undefined, Undefined)
NullProfile == ProfileResponse("null", Undefined)
NullPeg == PegResponse("null", Undefined)
NullFin == FinResponse("null", Undefined, Undefined, NoValue)

Bundle(div, profile, peg, fin) ==
  [div |-> div, profile |-> profile, peg |-> peg, fin |-> fin]

\* the responses an entity may get from the Data Source
Sources ==
  { \* the primary call exhausts its retries or gets a terminal status
    Bundle(NullDiv, NullProfile, NullPeg, NullFin),
    \* yield of zero
    Bundle(DivResponse("data", Str(<<"0", ".", "0", "0", "%">>),
                       Str(<<"1", ".", "2", "0">>)),
           NullProfile, NullPeg, NullFin),
    \* a dividend payer, every supplementary call answers
    Bundle(DivResponse("data", Str(<<"3", "%">>),
                       Str(<<"1", ".", "2", "0">>)),
           ProfileResponse("data", Str(<<"T", "e", "c", "h">>)),
           PegResponse("data", Num(5)), NullFin),
    \* annualized dividend of zero, written 0.00; profile without data,
    \* growth from the financials
    Bundle(DivResponse("data", Str(<<"9", "%">>),
                       Str(<<"0", ".", "0", "0">>)),
           ProfileResponse("nodata", Undefined),
           PegResponse("malformed", Undefined),
           FinResponse("data", Str(<<"$", "1", "6", "0">>),
                       Str(<<"$", "1", "0">>),
                       <<"1", "0", "0", ".", "0", "%">>)) }

SymbolNames == <<"A", "B", "C", "D", "E">>

\* the rows of the screener listing: unique symbols, a sector hint
Listing ==
  [k \in 1..NumStocks |->
     [symbol |-> SymbolNames[k],
      sector |-> IF k % 2 = 0 THEN Str(<<"F", "i", "n">>) ELSE Str(NoValue)]]

Symbols == {Listing[k].symbol : k \in 1..NumStocks}

(***************************************************************************)
(* fetchStockData and fetchGrowthRate of part_002                          *)
(***************************************************************************)
\* parseRevenue: '$' and ',' removed, then parseFloat; null when NaN
parseRevenue(x) ==
  IF Falsy(x) THEN NaN
  ELSE parseFloat(Str(SelectSeq(x.s, LAMBDA c : c \notin {"$", ","})))

\* lines 308-321: TRUE when the entity is dropped
primaryRejected(div) ==
  \/ div.kind # "data"
  \/ Falsy(div.yield)
  \/ Falsy(div.annualizedDividend)
  \/ StrictEq(div.yield, C_NA)
  \/ StrictEq(div.yield, C_Dashes)
  \/ StrictEq(div.annualizedDividend, C_NA)
  \/ StrictEq(div.annualizedDividend, C_Zero)
  \/ (~parseFloat(div.yield).nan /\ parseFloat(div.yield).v <= 0)

\* template literal `${x}`
Text(x) ==
  CASE x.t = "string" -> x.s
    [] x.t = "number" -> <<ToString(x.n)>>
    [] OTHER -> <<"undefined">>

\* lines 251-266: the analyst source; the inner try swallows .find throwing
pegGrowth(peg) ==
  IF peg.kind = "data" /\ ~Falsy(peg.y)
    THEN [growthRate |-> Text(peg.y) \o <<"%">>,
          growthSource |-> "Analyst Forecast"]
    ELSE [growthRate |-> NoValue, growthSource |-> ""]

\* lines 269-295: the financials source, asked only when growthRate is ''
finGrowth(fin) ==
  LET latest == parseRevenue(fin.latest)
      oldest == parseRevenue(fin.oldest)
  IN IF /\ fin.kind = "data"
        /\ ~latest.nan /\ latest.v # 0
        /\ ~oldest.nan /\ oldest.v # 0
       THEN [growthRate |-> fin.cagr, growthSource |-> "4yr Revenue CAGR"]
       ELSE [growthRate |-> NoValue, growthSource |-> ""]

fetchGrowthRate(src) ==
  LET first == pegGrowth(src.peg)
  IN IF first.growthRate # NoValue THEN first ELSE finGrowth(src.fin)

\* the fetchWithRetry calls fetchGrowthRate makes, in order
growthCalls(src) ==
  IF pegGrowth(src.peg).growthRate # NoValue
    THEN <<src.peg.kind>>
    ELSE <<src.peg.kind, src.fin.kind>>

Null == [isNull |-> TRUE, symbol |-> "", sector |-> NoValue,
         dividendYield |-> NoValue, annualDividend |-> NoValue,
         growthRate |-> NoValue, growthSource |-> ""]

\* fetchStockData giving up on an entity whose profile call returned null
fetchStockData_needsProfile(stock, src) ==
  IF primaryRejected(src.div) \/ src.profile.kind = "null" THEN Null
  ELSE
    LET hint == IF Falsy(stock.sector) THEN NoValue ELSE stock.sector.s
        sector == IF src.profile.kind = "data" /\ ~Falsy(src.profile.sector)
                    THEN src.profile.sector.s ELSE hint
        growthData == fetchGrowthRate(src)
    IN [isNull |-> FALSE,
        symbol |-> stock.symbol,
        sector |-> sector,
        dividendYield |-> src.div.yield.s,
        annualDividend |-> <<"$">> \o Text(src.div.annualizedDividend),
        growthRate |-> IF growthData.growthRate = NoValue
                         THEN C_NA ELSE growthData.growthRate,
        growthSource |-> growthData.growthSource]

\* lines 301-361
fetchStockData(stock, src) ==
  IF primaryRejected(src.div) THEN Null
  ELSE
    LET hint == IF Falsy(stock.sector) THEN NoValue ELSE stock.sector.s
        sector == IF src.profile.kind = "data" /\ ~Falsy(src.profile.sector)
                    THEN src.profile.sector.s ELSE hint
        growthData == fetchGrowthRate(src)
    IN [isNull |-> FALSE,
        symbol |-> stock.symbol,
        sector |-> sector,
        dividendYield |-> src.div.yield.s,
        annualDividend |-> <<"$">> \o Text(src.div.annualizedDividend),
        growthRate |-> IF growthData.growthRate = NoValue
                         THEN C_NA ELSE growthData.growthRate,
        growthSource |-> growthData.growthSource]

\* the fetchWithRetry calls fetchStockData makes, in order, each named by
\* the kind of its response
stockCalls(src) ==
  IF primaryRejected(src.div) THEN <<src.div.kind>>
  ELSE <<src.div.kind, src.profile.kind>> \o growthCalls(src)

\* Pending -> InFlight -> Recorded | Skipped | Failed
outcomeOf(src) ==
  IF src.div.kind = "null" THEN "Failed"
  ELSE IF primaryRejected(src.div) THEN "Skipped"
  ELSE "Recorded"

(***************************************************************************)
(* State                                                                   *)
(***************************************************************************)
VARIABLES
  \* the environment
  source,            \* the Data Source: symbol -> responses (deterministic)
  progressFile,      \* PROGRESS_FILE
  partialFile,       \* PARTIAL_FILE
  outputFile,        \* OUTPUT_FILE
  \* the collector process (fetchDividendStocks of part_002)
  pc,
  allStocks,
  processedSymbols,
  dividendStocks,
  remainingStocks,
  i,
  totalRequests,
  successRequests,
  failedRequests,
  \* bookkeeping of the runs
  runs,              \* process starts so far
  status,            \* symbol -> state of the entity in the current run
  saved,             \* saveProgress completed in the current iteration
  lastStop,          \* where the last stop hit the process
  crashStocks,       \* dividendStocks of the process at its last stop
  clean,             \* the current chain of segments had only clean stops
  resumed,           \* the current run restored a checkpoint
  reportRun,         \* the run that wrote OUTPUT_FILE
  \* fetchWithRetry, attempt by attempt (SpecRetry)
  variant,           \* "part_002" or "part_001"
  rpc,
  attempt,
  consecutiveErrors,
  currentUAIndex,
  uaUsed,            \* the pool index of the User-Agent of each attempt so far
  outcomes,          \* outcome of each attempt of the current call
  sleeps,            \* what was slept after each attempt of the current call
  cooldowns,         \* cooldowns registered during the current call
  callResult,
  calls,
  \* what the current run has done so far
  log,               \* its operations, in order
  loadedSymbols,     \* the processed set loadProgress returned to it
  \* the batched collector (fetchDividendStocks of part_001, SpecBatch)
  inFlight,          \* rows of remainingStocks whose fetchStockData runs
  results,           \* row -> what its fetchStockData resolved to
  savedStocks,       \* dividendStocks when the checkpoint on disk was saved
  priorStocks,       \* savedStocks of the checkpoint the run resumed from
  \* fetchStockData, request by request (SpecEntity)
  epc,
  requests,          \* the requests issued for the entity, in order
  pending,           \* the requests issued and not yet answered
  entityResult,
  \* the checkpoint functions called one after the other (SpecStore)
  lastOp,
  view,              \* what the last loadProgress returned
  viewAfterSave,     \* what loadProgress would return after the first of
                     \* the saveProgress calls made in a row
  \* the pacing of the loop of part_002
  pauseMs,           \* ms slept since the last entity settled, 0 when none
  \* the statistics section of the report (SpecStats)
  collected,         \* the record list in the order of collection
  statistics,        \* the statistics object built for OUTPUT_FILE
  \* parseDividendHistory of part_000 (SpecHistory)
  dividends,         \* the dividends object of the payload
  dividendHistory    \* what parseDividendHistory returned for it

runVars ==
  <<source, progressFile, partialFile, outputFile, pc, allStocks,
    processedSymbols, dividendStocks, remainingStocks, i, runs, status,
    saved, lastStop, crashStocks, clean, resumed, reportRun>>

tallyVars == <<totalRequests, successRequests, failedRequests>>

retryVars ==
  <<variant, rpc, attempt, consecutiveErrors, currentUAIndex, uaUsed,
    outcomes,
    sleeps, cooldowns, callResult, calls>>

runLogVars == <<log, loadedSymbols>>

batchVars == <<inFlight, results, savedStocks, priorStocks>>

entityVars == <<epc, requests, pending, entityResult>>

storeVars == <<lastOp, view, viewAfterSave>>

paceVars == <<pauseMs>>

statVars == <<collected, statistics>>

histVars == <<dividends, dividendHistory>>

auxVars ==
  <<batchVars, entityVars, storeVars, paceVars, statVars, histVars>>

vars == <<runVars, tallyVars, retryVars, runLogVars, auxVars>>

(***************************************************************************)
(* Files                                                                   *)
(***************************************************************************)
ProgressDoc(state, age, symbols, found) ==
  [state |-> state, age |-> age, processedSymbols |-> symbols,
   processedCount |-> Cardinality(symbols), foundCount |-> found]
PartialDoc(state, stocks) == [state |-> state, stocks |-> stocks]

NoProgress == ProgressDoc("absent", 0, {}, 0)
TornProgress == ProgressDoc("corrupt", 0, {}, 0)
NoPartial == PartialDoc("absent", << >>)
TornPartial == PartialDoc("corrupt", << >>)
NoOutput == [state |-> "absent", stocks |-> << >>, totalScanned |-> 0,
             totalDividendStocks |-> 0,
             requestStats |-> [total |-> 0, success |-> 0, failed |-> 0]]

\* no statistics object has been built
NoStatistics == [built |-> FALSE]

\* divData?.dividends of a payload without data
NoDividends == [kind |-> "undefined", rows |-> << >>]

\* parseDividendHistory has not been called
NotParsed == [parsed |-> FALSE, entries |-> << >>]

EmptyState == [processedSymbols |-> {}, partialStocks |-> << >>]

\* loadProgress restoring the processed symbols without the partial records
loadProgress_noPartial ==
  IF /\ progressFile.state = "ok"
     /\ progressFile.age < StaleHours
     /\ partialFile.state # "corrupt"
    THEN [processedSymbols |-> progressFile.processedSymbols,
          partialStocks |-> << >>]
    ELSE EmptyState

\* loadProgress restoring a checkpoint of any age
loadProgressFrom_anyAge(pf, tf) ==
  IF /\ pf.state = "ok"
     /\ tf.state # "corrupt"
    THEN [processedSymbols |-> pf.processedSymbols,
          partialStocks |-> IF tf.state = "ok" THEN tf.stocks ELSE << >>]
    ELSE EmptyState

\* lines 214-231, as a function of the two files; JSON.parse of a torn file
\* throws into the catch
loadProgressFrom(pf, tf) ==
  IF /\ pf.state = "ok"
     /\ pf.age < StaleHours
     /\ tf.state # "corrupt"
    THEN [processedSymbols |-> pf.processedSymbols,
          partialStocks |-> IF tf.state = "ok" THEN tf.stocks ELSE << >>]
    ELSE EmptyState

\* lines 214-231
loadProgress == loadProgressFrom(progressFile, partialFile)

\* lines 515-519: descending by parseFloat(dividendYield) || 0; the sort of
\* the runtime is stable
yieldKey(r) ==
  LET y == ParseFloatChars(r.dividendYield) IN IF y.nan THEN 0 ELSE y.v

\* an insertion that puts a record before the records of equal yield
InsertByYield_unstable(sorted, r) ==
  LET p == Cardinality({k \in 1..Len(sorted) :
                          yieldKey(sorted[k]) > yieldKey(r)})
  IN SubSeq(sorted, 1, p) \o <<r>> \o SubSeq(sorted, p + 1, Len(sorted))

InsertByYield(sorted, r) ==
  LET p == Cardinality({k \in 1..Len(sorted) :
                          yieldKey(sorted[k]) >= yieldKey(r)})
  IN SubSeq(sorted, 1, p) \o <<r>> \o SubSeq(sorted, p + 1, Len(sorted))

RECURSIVE SortByYield(_)
SortByYield(stocks) ==
  IF stocks = << >> THEN << >>
  ELSE InsertByYield(SortByYield(SubSeq(stocks, 1, Len(stocks) - 1)),
                     stocks[Len(stocks)])

CountKind(callSeq, nulls) ==
  Cardinality({k \in 1..Len(callSeq) : (callSeq[k] = "null") = nulls})

\* an entry of the log of a run: the operation and the symbol it is about
Op(op, sym) == [op |-> op, sym |-> sym]

Running == pc \notin {"stopped", "done", "aborted"}

(***************************************************************************)
(* The sequential collector: fetchDividendStocks of part_002               *)
(***************************************************************************)
InitRetryVars ==
  /\ variant = "part_002"
  /\ rpc = "idle"
  /\ attempt = 0
  /\ consecutiveErrors = 0
  /\ currentUAIndex = 0
  /\ uaUsed = << >>
  /\ outcomes = << >>
  /\ sleeps = << >>
  /\ cooldowns = 0
  /\ callResult = "none"
  /\ calls = 0

InitRunVars ==
  /\ progressFile = NoProgress
  /\ partialFile = NoPartial
  /\ outputFile = NoOutput
  /\ pc = "stopped"
  /\ allStocks = << >>
  /\ processedSymbols = {}
  /\ dividendStocks = << >>
  /\ remainingStocks = << >>
  /\ i = 0
  /\ totalRequests = 0
  /\ successRequests = 0
  /\ failedRequests = 0
  /\ runs = 0
  /\ status = [sym \in Symbols |-> "Pending"]
  /\ saved = FALSE
  /\ lastStop = "none"
  /\ crashStocks = << >>
  /\ clean = TRUE
  /\ resumed = FALSE
  /\ reportRun = 0
  /\ log = << >>
  /\ loadedSymbols = {}

InitAuxVars ==
  /\ inFlight = {}
  /\ results = << >>
  /\ savedStocks = << >>
  /\ priorStocks = << >>
  /\ epc = "idle"
  /\ requests = << >>
  /\ pending = {}
  /\ entityResult = Null
  /\ lastOp = "none"
  /\ view = EmptyState
  /\ viewAfterSave = EmptyState
  /\ pauseMs = 0
  /\ collected = << >>
  /\ statistics = NoStatistics
  /\ dividends = NoDividends
  /\ dividendHistory = NotParsed

InitRun ==
  /\ source \in [Symbols -> Sources]
  /\ InitRunVars
  /\ InitRetryVars
  /\ InitAuxVars

\* the process is started: module state as initialised in lines 45-49
Start ==
  /\ ~Running
  /\ runs < MaxRuns
  /\ runs' = runs + 1
  /\ pc' = "listing"
  /\ allStocks' = << >>
  /\ processedSymbols' = {}
  /\ dividendStocks' = << >>
  /\ remainingStocks' = << >>
  /\ i' = 0
  /\ totalRequests' = 0
  /\ successRequests' = 0
  /\ failedRequests' = 0
  /\ status' = [sym \in Symbols |-> "Pending"]
  /\ saved' = FALSE
  /\ resumed' = FALSE
  /\ log' = << >>
  /\ loadedSymbols' = {}
  /\ UNCHANGED <<source, progressFile, partialFile, outputFile, lastStop,
                 crashStocks, clean, reportRun, retryVars, auxVars>>

\* FetchListing going on with an empty list instead of throwing
FetchListing_noAbort ==
  /\ pc = "listing"
  /\ totalRequests' = totalRequests + 1
  /\ \E ok \in BOOLEAN :
       IF ok
         THEN /\ allStocks' = Listing
              /\ successRequests' = successRequests + 1
              /\ failedRequests' = failedRequests
              /\ pc' = "load"
         ELSE /\ allStocks' = << >>
              /\ successRequests' = successRequests
              /\ failedRequests' = failedRequests + 1
              /\ pc' = "load"
  /\ log' = Append(log, Op("listing", ""))
  /\ UNCHANGED <<source, progressFile, partialFile, outputFile,
                 processedSymbols, dividendStocks, remainingStocks, i, runs,
                 status, saved, lastStop, crashStocks, clean, resumed,
                 reportRun, retryVars, loadedSymbols, auxVars>>

\* lines 446-458: the listing call; no rows throws into the catch of
\* line 589, which exits the process
FetchListing ==
  /\ pc = "listing"
  /\ totalRequests' = totalRequests + 1
  /\ \E ok \in BOOLEAN :
       IF ok
         THEN /\ allStocks' = Listing
              /\ successRequests' = successRequests + 1
              /\ failedRequests' = failedRequests
              /\ pc' = "load"
         ELSE /\ allStocks' = << >>
              /\ successRequests' = successRequests
              /\ failedRequests' = failedRequests + 1
              /\ pc' = "aborted"
  /\ log' = Append(log, Op("listing", ""))
  /\ UNCHANGED <<source, progressFile, partialFile, outputFile,
                 processedSymbols, dividendStocks, remainingStocks, i, runs,
                 status, saved, lastStop, crashStocks, clean, resumed,
                 reportRun, retryVars, loadedSymbols, auxVars>>

\* lines 461-462
LoadProgress ==
  /\ pc = "load"
  /\ LET st == loadProgress
         restored == st # EmptyState
     IN /\ processedSymbols' = st.processedSymbols
        /\ dividendStocks' = st.partialStocks
        /\ resumed' = restored
        /\ clean' = IF restored THEN clean /\ lastStop = "afterSave" ELSE TRUE
        /\ loadedSymbols' = st.processedSymbols
  /\ log' = Append(log, Op("load", ""))
  /\ pc' = "loaded"
  /\ UNCHANGED <<source, progressFile, partialFile, outputFile, allStocks,
                 remainingStocks, i, runs, status, saved, lastStop,
                 crashStocks, reportRun, tallyVars, retryVars, auxVars>>

\* line 465
FilterRemaining ==
  /\ pc = "loaded"
  /\ remainingStocks' =
       SelectSeq(allStocks, LAMBDA st : st.symbol \notin processedSymbols)
  /\ i' = 0
  /\ pc' = "loop"
  /\ UNCHANGED <<source, progressFile, partialFile, outputFile, allStocks,
                 processedSymbols, dividendStocks, runs, status, saved,
                 lastStop, crashStocks, clean, resumed, reportRun,
                 tallyVars, retryVars, runLogVars, auxVars>>

\* line 471: the loop test; the entity goes in flight
LoopHead ==
  /\ pc = "loop"
  /\ IF i < Len(remainingStocks)
       THEN /\ status' =
                 [status EXCEPT ![remainingStocks[i + 1].symbol] = "InFlight"]
            /\ log' = Append(log, Op("fetch", remainingStocks[i + 1].symbol))
            /\ pc' = "fetching"
       ELSE /\ status' = status
            /\ log' = log
            /\ pc' = "report"
  /\ saved' = FALSE
  /\ pauseMs' = 0
  /\ UNCHANGED <<source, progressFile, partialFile, outputFile, allStocks,
                 processedSymbols, dividendStocks, remainingStocks, i, runs,
                 lastStop, crashStocks, clean, resumed, reportRun,
                 tallyVars, retryVars, loadedSymbols, batchVars, entityVars,
                 storeVars, statVars, histVars>>

\* SettleEntity leaving an entity whose primary fetch failed out of the
\* processed set
SettleEntity_failedUnprocessed ==
  /\ pc = "fetching"
  /\ LET stock == remainingStocks[i + 1]
         src == source[stock.symbol]
         result == fetchStockData(stock, src)
         callSeq == stockCalls(src)
         processed == IF src.div.kind = "null" THEN processedSymbols
                      ELSE processedSymbols \cup {stock.symbol}
     IN /\ processedSymbols' = processed
        /\ dividendStocks' = IF result.isNull THEN dividendStocks
                             ELSE Append(dividendStocks, result)
        /\ status' = [status EXCEPT ![stock.symbol] = outcomeOf(src)]
        /\ totalRequests' = totalRequests + Len(callSeq)
        /\ successRequests' = successRequests + CountKind(callSeq, FALSE)
        /\ failedRequests' = failedRequests + CountKind(callSeq, TRUE)
        /\ pc' = IF Cardinality(processed) % SAVE_INTERVAL = 0
                   THEN "save_progress" ELSE "pause"
  /\ UNCHANGED <<source, progressFile, partialFile, outputFile, allStocks,
                 remainingStocks, i, runs, saved, lastStop, crashStocks,
                 clean, resumed, reportRun, retryVars, runLogVars, auxVars>>

\* SettleEntity with a failed primary fetch unwinding to the catch of
\* line 589 instead of being contained by fetchStockData
SettleEntity_failureEscapes ==
  /\ pc = "fetching"
  /\ LET stock == remainingStocks[i + 1]
         src == source[stock.symbol]
         result == fetchStockData(stock, src)
         callSeq == stockCalls(src)
         processed == processedSymbols \cup {stock.symbol}
     IN /\ processedSymbols' = processed
        /\ dividendStocks' = IF result.isNull THEN dividendStocks
                             ELSE Append(dividendStocks, result)
        /\ status' = [status EXCEPT ![stock.symbol] = outcomeOf(src)]
        /\ totalRequests' = totalRequests + Len(callSeq)
        /\ successRequests' = successRequests + CountKind(callSeq, FALSE)
        /\ failedRequests' = failedRequests + CountKind(callSeq, TRUE)
        /\ pc' = IF src.div.kind = "null" THEN "aborted"
                 ELSE IF Cardinality(processed) % SAVE_INTERVAL = 0
                   THEN "save_progress" ELSE "pause"
  /\ UNCHANGED <<source, progressFile, partialFile, outputFile, allStocks,
                 remainingStocks, i, runs, saved, lastStop, crashStocks,
                 clean, resumed, reportRun, retryVars, runLogVars, auxVars>>

\* lines 472-502: fetchStockData settles, the entity is marked processed,
\* its record (if any) is appended, the save cadence is tested
SettleEntity ==
  /\ pc = "fetching"
  /\ LET stock == remainingStocks[i + 1]
         src == source[stock.symbol]
         result == fetchStockData(stock, src)
         callSeq == stockCalls(src)
         processed == processedSymbols \cup {stock.symbol}
     IN /\ processedSymbols' = processed
        /\ dividendStocks' = IF result.isNull THEN dividendStocks
                             ELSE Append(dividendStocks, result)
        /\ status' = [status EXCEPT ![stock.symbol] = outcomeOf(src)]
        /\ totalRequests' = totalRequests + Len(callSeq)
        /\ successRequests' = successRequests + CountKind(callSeq, FALSE)
        /\ failedRequests' = failedRequests + CountKind(callSeq, TRUE)
        /\ pc' = IF Cardinality(processed) % SAVE_INTERVAL = 0
                   THEN "save_progress" ELSE "pause"
  /\ UNCHANGED <<source, progressFile, partialFile, outputFile, allStocks,
                 remainingStocks, i, runs, saved, lastStop, crashStocks,
                 clean, resumed, reportRun, retryVars, runLogVars, auxVars>>

\* lines 198-205: saveProgress writes the progress document
SaveProgressFile ==
  /\ pc = "save_progress"
  /\ progressFile' =
       ProgressDoc("ok", 0, processedSymbols, Len(dividendStocks))
  /\ log' = Append(log, Op("save", ""))
  /\ pc' = "save_partial"
  /\ UNCHANGED <<source, partialFile, outputFile, allStocks, processedSymbols,
                 dividendStocks, remainingStocks, i, runs, status, saved,
                 lastStop, crashStocks, clean, resumed, reportRun,
                 tallyVars, retryVars, loadedSymbols, auxVars>>

\* the partial records added to those already in the file
writePartial_appends(file, stocks) ==
  IF Len(stocks) > 0 THEN PartialDoc("ok", file.stocks \o stocks) ELSE file

\* lines 208-210: saveProgress writes the partial records, if there are any
writePartial(file, stocks) ==
  IF Len(stocks) > 0 THEN PartialDoc("ok", stocks) ELSE file

SavePartialFile ==
  /\ pc = "save_partial"
  /\ partialFile' = writePartial(partialFile, dividendStocks)
  /\ saved' = TRUE
  /\ pc' = "pause"
  /\ UNCHANGED <<source, progressFile, outputFile, allStocks,
                 processedSymbols, dividendStocks, remainingStocks, i, runs,
                 status, lastStop, crashStocks, clean, resumed, reportRun,
                 tallyVars, retryVars, runLogVars, auxVars>>

\* Pause going back to the loop test without the i++
Pause_noAdvance ==
  /\ pc = "pause"
  /\ pc' = "loop"
  /\ UNCHANGED <<source, progressFile, partialFile, outputFile, allStocks,
                 processedSymbols, dividendStocks, remainingStocks, i, runs,
                 status, saved, lastStop, crashStocks, clean, resumed,
                 reportRun, tallyVars, retryVars, runLogVars, auxVars>>

\* lines 504-509 and the i++ of line 471; how long the pause lasts is left
\* to PacedPause
Pause ==
  /\ pc = "pause"
  /\ i' = i + 1
  /\ pc' = "loop"
  /\ UNCHANGED <<source, progressFile, partialFile, outputFile, allStocks,
                 processedSymbols, dividendStocks, remainingStocks, runs,
                 status, saved, lastStop, crashStocks, clean, resumed,
                 reportRun, tallyVars, retryVars, runLogVars, auxVars>>

\* WriteReport going to clearProgress without writing OUTPUT_FILE
WriteReport_skipped ==
  /\ pc = "report"
  /\ pc' = "clear_progress"
  /\ UNCHANGED <<source, progressFile, partialFile, outputFile, allStocks,
                 processedSymbols, dividendStocks, remainingStocks, i, runs,
                 status, saved, lastStop, crashStocks, clean, resumed,
                 reportRun, tallyVars, retryVars, runLogVars, auxVars>>

\* lines 514-574: sort in place, build the report, write OUTPUT_FILE
WriteReport ==
  /\ pc = "report"
  /\ LET sorted == SortByYield(dividendStocks)
     IN /\ dividendStocks' = sorted
        /\ outputFile' =
             [state |-> "ok",
              stocks |-> sorted,
              totalScanned |-> Len(allStocks),
              totalDividendStocks |-> Len(sorted),
              requestStats |-> [total |-> totalRequests,
                                success |-> successRequests,
                                failed |-> failedRequests]]
  /\ reportRun' = runs
  /\ log' = Append(log, Op("report", ""))
  /\ pc' = "clear_progress"
  /\ UNCHANGED <<source, progressFile, partialFile, allStocks,
                 processedSymbols, remainingStocks, i, runs, status, saved,
                 lastStop, crashStocks, clean, resumed, tallyVars, retryVars,
                 loadedSymbols, auxVars>>

\* line 236
ClearProgressFile ==
  /\ pc = "clear_progress"
  /\ progressFile' = NoProgress
  /\ log' = Append(log, Op("clear", ""))
  /\ pc' = "clear_partial"
  /\ UNCHANGED <<source, partialFile, outputFile, allStocks, processedSymbols,
                 dividendStocks, remainingStocks, i, runs, status, saved,
                 lastStop, crashStocks, clean, resumed, reportRun,
                 tallyVars, retryVars, loadedSymbols, auxVars>>

\* line 237
ClearPartialFile ==
  /\ pc = "clear_partial"
  /\ partialFile' = NoPartial
  /\ pc' = "done"
  /\ UNCHANGED <<source, progressFile, outputFile, allStocks,
                 processedSymbols, dividendStocks, remainingStocks, i, runs,
                 status, saved, lastStop, crashStocks, clean, resumed,
                 reportRun, tallyVars, retryVars, runLogVars, auxVars>>

stopKind ==
  IF pc = "pause" /\ saved THEN "afterSave"
  ELSE IF pc \in {"save_progress", "save_partial"} THEN "inSave"
  ELSE "other"

\* the process is stopped from outside; its memory is lost, a file being
\* written may be left torn
Stop ==
  /\ Running
  /\ pc' = "stopped"
  /\ lastStop' = stopKind
  /\ crashStocks' = dividendStocks
  /\ progressFile' \in
       IF pc = "save_progress" THEN {progressFile, TornProgress}
       ELSE {progressFile}
  /\ partialFile' \in
       IF pc = "save_partial" /\ Len(dividendStocks) > 0
         THEN {partialFile, TornPartial}
         ELSE {partialFile}
  /\ allStocks' = << >>
  /\ processedSymbols' = {}
  /\ dividendStocks' = << >>
  /\ remainingStocks' = << >>
  /\ i' = 0
  /\ totalRequests' = 0
  /\ successRequests' = 0
  /\ failedRequests' = 0
  /\ saved' = FALSE
  /\ status' = [sym \in Symbols |-> "Pending"]
  /\ resumed' = FALSE
  /\ log' = << >>
  /\ loadedSymbols' = {}
  /\ UNCHANGED <<source, outputFile, runs, clean, reportRun, retryVars,
                 auxVars>>

\* time passes while no process runs: Date.now() - timestamp grows
Tick ==
  /\ ~Running
  /\ progressFile.state = "ok"
  /\ progressFile.age < StaleHours
  /\ progressFile' = [progressFile EXCEPT !.age = @ + TickHours]
  /\ UNCHANGED <<source, partialFile, outputFile, pc, allStocks,
                 processedSymbols, dividendStocks, remainingStocks, i, runs,
                 status, saved, lastStop, crashStocks, clean, resumed,
                 reportRun, tallyVars, retryVars, runLogVars, auxVars>>

NextRun ==
  \/ Start
  \/ FetchListing
  \/ LoadProgress
  \/ FilterRemaining
  \/ LoopHead
  \/ SettleEntity
  \/ SaveProgressFile
  \/ SavePartialFile
  \/ Pause
  \/ WriteReport
  \/ ClearProgressFile
  \/ ClearPartialFile
  \/ Stop
  \/ Tick

SpecRun == InitRun /\ [][NextRun]_vars

(***************************************************************************)
(* Properties of the sequential collector                                  *)
(***************************************************************************)
RecordSet(stocks) == {stocks[k] : k \in 1..Len(stocks)}
SymbolsOf(stocks) == {stocks[k].symbol : k \in 1..Len(stocks)}

\* the record collection of one uninterrupted run over the listing
ExpectedRecords ==
  {fetchStockData(Listing[k], source[Listing[k].symbol]) :
     k \in 1..NumStocks} \ {Null}

ReportWritten == reportRun = runs /\ runs > 0 /\ outputFile.state = "ok"

\* C1: a run that starts from no checkpoint, is stopped only right after
\* completed saveProgress calls, is restarted inside the staleness window
\* and runs to completion writes a report whose records, as a set, are the
\* records of one uninterrupted run over the same listing and responses.
C1_ResumeEquivalent ==
  (ReportWritten /\ clean) => RecordSet(outputFile.stocks) = ExpectedRecords

\* a resumed run, stopped after N > 0 entities and M > 0 records, finished
C1_Witness ==
  /\ pc = "done"
  /\ clean
  /\ resumed
  /\ Len(remainingStocks) \in 1..(NumStocks - 1)
  /\ SymbolsOf(outputFile.stocks) \ SymbolsOf(remainingStocks) # {}
  /\ SymbolsOf(outputFile.stocks) \cap SymbolsOf(remainingStocks) # {}

\* C2: after a stop inside saveProgress, what loadProgress returns never
\* has a processed symbol whose record was collected before the stop and
\* is missing from the loaded partial records.
C2_SaveAtomic ==
  (pc = "loaded" /\ lastStop = "inSave") =>
    \A r \in RecordSet(crashStocks) :
      r.symbol \in processedSymbols => r \in RecordSet(dividendStocks)

\* C3: every record loadProgress returns has its symbol among the processed
\* symbols it returns.
C3_PartialSubsetProcessed ==
  pc = "loaded" => SymbolsOf(dividendStocks) \subseteq processedSymbols

MetricMissing(x) ==
  \/ x.t = "undefined"
  \/ x.t = "string" /\ x.s \in {NoValue, C_NA, C_Dashes}
MetricZero(x) == ~parseFloat(x).nan /\ parseFloat(x).v = 0
ZeroOrMissingPrimary(div) ==
  \/ div.kind = "nodata"
  \/ /\ div.kind = "data"
     /\ \/ MetricMissing(div.yield) \/ MetricZero(div.yield)
        \/ MetricMissing(div.annualizedDividend)
        \/ MetricZero(div.annualizedDividend)

\* C4: an entity whose primary payload has a missing or zero dividend yield
\* or annualized dividend is never recorded and never in the report.
C4_ValidationSkipAbsolute ==
  \A sym \in Symbols :
    ZeroOrMissingPrimary(source[sym].div) =>
      /\ status[sym] # "Recorded"
      /\ outputFile.state = "ok" => sym \notin SymbolsOf(outputFile.stocks)

Settled == {"Recorded", "Skipped", "Failed"}

\* C10: a failed per-entity fetch never aborts the run: only a failed
\* listing aborts, every entity of the remaining list is settled as
\* Recorded, Skipped or Failed when the loop ends, and the run that ends
\* has written the report.
C10_FailureContained ==
  /\ pc = "aborted" => allStocks = << >>
  /\ pc \in {"report", "clear_progress", "clear_partial", "done"} =>
       \A k \in 1..Len(remainingStocks) :
         /\ status[remainingStocks[k].symbol] \in Settled
         /\ status[remainingStocks[k].symbol] =
              outcomeOf(source[remainingStocks[k].symbol])
  /\ pc = "done" => ReportWritten

\* a run completed although an entity failed, with a later entity recorded
C10_Witness ==
  /\ pc = "done"
  /\ \E j, k \in 1..Len(remainingStocks) :
       /\ j < k
       /\ status[remainingStocks[j].symbol] = "Failed"
       /\ status[remainingStocks[k].symbol] = "Recorded"

\* the operations of the current run, by name
OpsOf(l) == [k \in 1..Len(l) |-> l[k].op]

\* C11: when the listing call fails after its retries or yields no rows,
\* the run aborts: the listing request is the only request of the run, no
\* report is written, and the checkpoint is neither loaded nor cleared.
C11_ListingFailureAborts ==
  (pc \notin {"stopped", "listing"} /\ allStocks = << >>) =>
    /\ pc = "aborted"
    /\ OpsOf(log) = <<"listing">>
    /\ totalRequests = 1
    /\ reportRun # runs

\* a run aborted on its listing while a checkpoint of an earlier run is on
\* disk
C11_Witness ==
  /\ pc = "aborted"
  /\ allStocks = << >>
  /\ progressFile.state = "ok"
  /\ progressFile.processedSymbols # {}
  /\ progressFile.age < StaleHours

CountOps(l, op) == Cardinality({k \in 1..Len(l) : l[k].op = op})

\* C18: clearProgress is executed at most once per run, only right after
\* the report of that run has been written and with every entity of the
\* listing processed, and never in a run that aborts.
C18_ClearOnceAfterReport ==
  /\ CountOps(log, "clear") <= 1
  /\ CountOps(log, "clear") = 1 =>
       /\ Len(log) >= 2
       /\ log[Len(log)].op = "clear"
       /\ log[Len(log) - 1].op = "report"
       /\ ReportWritten
       /\ allStocks # << >>
       /\ SymbolsOf(allStocks) \subseteq processedSymbols
  /\ pc = "aborted" => CountOps(log, "clear") = 0

\* a resumed run completed and removed the checkpoint it had resumed from
C18_Witness ==
  /\ pc = "done"
  /\ resumed
  /\ CountOps(log, "clear") = 1
  /\ progressFile = NoProgress

(***************************************************************************)
(* fetchWithRetry and smartPause, attempt by attempt                       *)
(*                                                                         *)
(* Durations are counted in units of 1 / 2^RETRY_TIMES ms, so that         *)
(* RETRY_DELAY * 1.5^attempt is an integer for every attempt of a call.    *)
(***************************************************************************)
RECURSIVE Pow(_, _)
Pow(b, e) == IF e = 0 THEN 1 ELSE b * Pow(b, e - 1)

Ms(t) == t * Pow(2, RETRY_TIMES)

\* what the remote may do to one attempt: an HTTP status ("200_badjson" is
\* a 2xx response whose body res.json() rejects), the timeout abort, a
\* transport error
Statuses == {"200", "200_badjson", "404", "429", "403", "502", "503"}
Exceptions == {"timeout", "error"}
Outcomes == Statuses \cup Exceptions

\* part_002 line 137: the backoff slept before attempt number a (a > 0)
waitTime_flat(a) == RETRY_DELAY * Pow(2, RETRY_TIMES)

waitTime(a) == RETRY_DELAY * Pow(3, a) * Pow(2, RETRY_TIMES - a)

\* the for loop of line 133 (part_001: line 587): is attempt number a made
anotherAttempt_short(a, retries) == a < retries

anotherAttempt(a, retries) == a <= retries

\* the status tests: the reason handed to the pause, "none" when the status
\* is not one that is retried.  part_002 lines 152-168, part_001 lines
\* 599-609
pauseReason_no503(v, st) ==
  CASE st = "429" -> "rate_limit"
    [] st = "403" -> "forbidden"
    [] st = "502" /\ v = "part_002" -> "server_error"
    [] OTHER -> "none"

pauseReason_429unpaused(v, st) ==
  CASE st = "429" -> "unpaused"
    [] st = "403" -> "forbidden"
    [] st \in {"502", "503"} /\ v = "part_002" -> "server_error"
    [] OTHER -> "none"

pauseReason(v, st) ==
  CASE st = "429" -> "rate_limit"
    [] st = "403" -> "forbidden"
    [] st \in {"502", "503"} /\ v = "part_002" -> "server_error"
    [] OTHER -> "none"

Slept(errors, duration, isCooldown, tripped) ==
  [consecutiveErrors |-> errors, slept |-> duration,
   cooldown |-> isCooldown, tripped |-> tripped]

\* a pause whose long sleep leaves the counter where it is
smartPause_noReset(reason, errors) ==
  IF errors + 1 >= MAX_CONSECUTIVE_ERRORS
    THEN Slept(errors + 1, Ms(LONG_PAUSE), TRUE, TRUE)
  ELSE IF reason = "rate_limit"
    THEN Slept(errors + 1, Ms(RATE_LIMIT_PAUSE), TRUE, FALSE)
  ELSE Slept(errors + 1, Ms(ERROR_PAUSE), TRUE, FALSE)

\* part_002 lines 114-127
smartPause(reason, errors) ==
  IF errors + 1 >= MAX_CONSECUTIVE_ERRORS
    THEN Slept(0, Ms(LONG_PAUSE), TRUE, TRUE)
  ELSE IF reason = "rate_limit"
    THEN Slept(errors + 1, Ms(RATE_LIMIT_PAUSE), TRUE, FALSE)
  ELSE Slept(errors + 1, Ms(ERROR_PAUSE), TRUE, FALSE)

\* part_001 lines 599-609: the delay grows with the attempt number
stepPause(reason, a, errors) ==
  IF reason = "rate_limit"
    THEN Slept(errors, Ms(RATE_LIMIT_STEP_P1) * (a + 1), TRUE, FALSE)
    ELSE Slept(errors, Ms(FORBIDDEN_STEP_P1) * (a + 1), TRUE, FALSE)

\* the pause taken after a retried status
pauseAfter(v, reason, a, errors) ==
  IF reason = "unpaused" THEN Slept(errors, 0, FALSE, FALSE)
  ELSE IF v = "part_002" THEN smartPause(reason, errors)
  ELSE stepPause(reason, a, errors)

\* a rotation that never reaches the last User-Agent of the pool
getNextUA_short(index) == (index + 1) % (NumUserAgents - 1)

\* part_002 lines 52-55: the index getNextUA moves to, which is also the
\* index of the User-Agent it returns
getNextUA(index) == (index + 1) % NumUserAgents

Gap(pause, tripped) == [pause |-> pause, backoff |-> 0, tripped |-> tripped]

InitRetry ==
  /\ source = [sym \in Symbols |-> Bundle(NullDiv, NullProfile, NullPeg,
                                           NullFin)]
  /\ InitRunVars
  /\ InitAuxVars
  /\ variant \in {"part_002", "part_001"}
  /\ rpc = "idle"
  /\ attempt = 0
  /\ consecutiveErrors = 0
  /\ currentUAIndex = 0
  /\ uaUsed = << >>
  /\ outcomes = << >>
  /\ sleeps = << >>
  /\ cooldowns = 0
  /\ callResult = "none"
  /\ calls = 0

\* part_002 lines 130-133, part_001 lines 586-587: a caller enters
\* fetchWithRetry
BeginCall ==
  /\ rpc \in {"idle", "returned"}
  /\ calls < MaxCalls
  /\ calls' = calls + 1
  /\ totalRequests' =
       IF variant = "part_002" THEN totalRequests + 1 ELSE totalRequests
  /\ attempt' = 0
  /\ outcomes' = << >>
  /\ sleeps' = << >>
  /\ cooldowns' = 0
  /\ callResult' = "none"
  /\ rpc' = "attempt"
  /\ UNCHANGED <<runLogVars, auxVars, runVars, successRequests,
                 failedRequests, variant,
                 consecutiveErrors, currentUAIndex, uaUsed>>

\* part_002 lines 136-149, part_001 lines 589-597: the backoff before a
\* retry, the next User-Agent, the request and what the remote does to it
Request ==
  /\ rpc = "attempt"
  /\ sleeps' =
       IF variant = "part_002" /\ attempt > 0
         THEN [sleeps EXCEPT ![attempt].backoff = waitTime(attempt)]
         ELSE sleeps
  /\ currentUAIndex' =
       IF variant = "part_002"
         THEN getNextUA(currentUAIndex) ELSE currentUAIndex
  /\ uaUsed' =
       IF variant = "part_002"
         THEN Append(uaUsed, getNextUA(currentUAIndex)) ELSE uaUsed
  /\ \E o \in Outcomes :
       /\ outcomes' = Append(outcomes, o)
       /\ rpc' = IF o \in Exceptions THEN "catch" ELSE "classify"
  /\ UNCHANGED <<runLogVars, auxVars, runVars, tallyVars, variant, attempt,
                 consecutiveErrors,
                 cooldowns, callResult, calls>>

\* the continue statement and the loop test; falling out of the loop is
\* part_002 lines 192-193, part_001 line 620
NextAttempt(a) ==
  IF anotherAttempt(a + 1, RETRY_TIMES)
    THEN /\ attempt' = a + 1
         /\ rpc' = "attempt"
         /\ callResult' = callResult
         /\ failedRequests' = failedRequests
    ELSE /\ attempt' = a + 1
         /\ rpc' = "returned"
         /\ callResult' = "null"
         /\ failedRequests' =
              IF variant = "part_002" THEN failedRequests + 1
              ELSE failedRequests

\* part_002 lines 151-178, part_001 lines 599-613: the response is examined
Classify ==
  /\ rpc = "classify"
  /\ LET st == outcomes[Len(outcomes)]
         reason == pauseReason(variant, st)
         p == pauseAfter(variant, reason, attempt, consecutiveErrors)
     IN CASE reason # "none" ->
               /\ consecutiveErrors' = p.consecutiveErrors
               /\ sleeps' = Append(sleeps, Gap(p.slept, p.tripped))
               /\ cooldowns' = IF p.cooldown THEN cooldowns + 1 ELSE cooldowns
               /\ successRequests' = successRequests
               /\ NextAttempt(attempt)
          [] reason = "none" /\ st = "200" ->
               /\ consecutiveErrors' =
                    IF variant = "part_002" THEN 0 ELSE consecutiveErrors
               /\ successRequests' =
                    IF variant = "part_002" THEN successRequests + 1
                    ELSE successRequests
               /\ sleeps' = Append(sleeps, Gap(0, FALSE))
               /\ callResult' = "payload"
               /\ rpc' = "returned"
               /\ UNCHANGED <<attempt, cooldowns, failedRequests>>
          [] reason = "none" /\ st = "200_badjson" ->
               /\ consecutiveErrors' =
                    IF variant = "part_002" THEN 0 ELSE consecutiveErrors
               /\ successRequests' =
                    IF variant = "part_002" THEN successRequests + 1
                    ELSE successRequests
               /\ rpc' = "catch"
               /\ UNCHANGED <<attempt, sleeps, cooldowns, callResult,
                              failedRequests>>
          [] OTHER ->
               /\ failedRequests' =
                    IF variant = "part_002" THEN failedRequests + 1
                    ELSE failedRequests
               /\ sleeps' = Append(sleeps, Gap(0, FALSE))
               /\ callResult' = "null"
               /\ rpc' = "returned"
               /\ UNCHANGED <<attempt, consecutiveErrors, cooldowns,
                              successRequests>>
  /\ UNCHANGED <<runLogVars, auxVars, runVars, totalRequests, variant,
                 currentUAIndex, uaUsed, outcomes,
                 calls>>

\* a catch block that gives up by throwing to the caller
Catch_rethrows ==
  /\ rpc = "catch"
  /\ IF attempt = RETRY_TIMES
       THEN /\ rpc' = "threw"
            /\ sleeps' = Append(sleeps, Gap(0, FALSE))
            /\ UNCHANGED <<attempt, callResult, failedRequests>>
       ELSE /\ sleeps' =
                 Append(sleeps,
                        Gap(IF variant = "part_001"
                              THEN Ms(RETRY_DELAY_P1) * (attempt + 1) ELSE 0,
                            FALSE))
            /\ NextAttempt(attempt)
  /\ UNCHANGED <<runLogVars, auxVars, runVars, totalRequests,
                 successRequests, variant,
                 consecutiveErrors, currentUAIndex, uaUsed, outcomes,
                 cooldowns,
                 calls>>

\* part_002 lines 180-189, part_001 lines 614-618: whatever was thrown in
\* the try block of this attempt is caught
Catch ==
  /\ rpc = "catch"
  /\ sleeps' =
       Append(sleeps,
              Gap(IF variant = "part_001" /\ attempt < RETRY_TIMES
                    THEN Ms(RETRY_DELAY_P1) * (attempt + 1) ELSE 0,
                  FALSE))
  /\ IF variant = "part_002" /\ attempt = RETRY_TIMES
       THEN /\ failedRequests' = failedRequests + 1
            /\ callResult' = "null"
            /\ rpc' = "returned"
            /\ attempt' = attempt
       ELSE NextAttempt(attempt)
  /\ UNCHANGED <<runLogVars, auxVars, runVars, totalRequests,
                 successRequests, variant,
                 consecutiveErrors, currentUAIndex, uaUsed, outcomes,
                 cooldowns,
                 calls>>

NextRetry ==
  \/ BeginCall
  \/ Request
  \/ Classify
  \/ Catch

SpecRetry == InitRetry /\ [][NextRetry]_vars

(***************************************************************************)
(* Properties of fetchWithRetry                                            *)
(***************************************************************************)
AllIn(seq, S) == \A k \in 1..Len(seq) : seq[k] \in S

ServerErrors == {"502", "503"}
\* the TransientFailure class: server-side transient statuses, timeouts,
\* transport errors
Transient == ServerErrors \cup Exceptions

\* the transient failures each variant retries
RetriedTransient ==
  IF variant = "part_002" THEN Transient ELSE Exceptions

AlwaysTransient == outcomes # << >> /\ AllIn(outcomes, Transient)

\* C5 as stated: against a remote that answers every attempt with a
\* transient failure the call returns null after exactly RETRY_TIMES
\* attempts.
C5_ExhaustedAfterR ==
  (rpc = "returned" /\ outcomes # << >>
     /\ AllIn(outcomes, RetriedTransient)) =>
    (callResult = "null" /\ Len(outcomes) = RETRY_TIMES)

\* C5 amended: against a remote that answers every attempt with a transient
\* failure the variant retries, the call returns null after exactly
\* RETRY_TIMES + 1 attempts (the first attempt plus RETRY_TIMES retries).
C5_ExhaustedAfterRPlus1 ==
  (rpc = "returned" /\ outcomes # << >>
     /\ AllIn(outcomes, RetriedTransient)) =>
    (callResult = "null" /\ Len(outcomes) = RETRY_TIMES + 1)

C5_Witness ==
  /\ rpc = "returned"
  /\ callResult = "null"
  /\ Len(outcomes) > 1
  /\ AllIn(outcomes, RetriedTransient)

\* what is slept between attempt j and attempt j + 1 of the current call
TotalSlept(j) == sleeps[j].pause + sleeps[j].backoff

\* C6 as stated: with a remote that always fails transiently, the time
\* slept between one attempt and the next never decreases.
C6_SleepNonDecreasing ==
  (variant = "part_002" /\ AlwaysTransient) =>
    \A j \in 1..(Len(outcomes) - 2) : TotalSlept(j) <= TotalSlept(j + 1)

SameWay(a, b) == (a \in ServerErrors) = (b \in ServerErrors)

\* C6 amended: the retry backoff grows strictly from attempt to attempt,
\* and the total slept does not decrease from one gap to the next when the
\* circuit breaker did not trip in the earlier gap and both attempts failed
\* the same way (both 502/503, or both timeout / transport error).
C6_BackoffGrows ==
  (variant = "part_002" /\ AlwaysTransient) =>
    \A j \in 1..(Len(outcomes) - 2) :
      /\ sleeps[j].backoff < sleeps[j + 1].backoff
      /\ (~sleeps[j].tripped /\ SameWay(outcomes[j], outcomes[j + 1])) =>
           TotalSlept(j) <= TotalSlept(j + 1)

\* three failed attempts of a call that started with failures on the counter
C6_Witness ==
  /\ variant = "part_002"
  /\ calls = 2
  /\ AlwaysTransient
  /\ Len(outcomes) >= 3
  /\ sleeps[1].pause > 0
  /\ ~sleeps[1].tripped
  /\ sleeps[2].tripped

RateLimitedTwice == <<"429", "429", "200">>

\* C7 as stated: 429, 429, success returns the payload with exactly one
\* cooldown registered.
C7_OneCooldown ==
  (variant = "part_002" /\ rpc = "returned"
     /\ outcomes = RateLimitedTwice) =>
    (callResult = "payload" /\ cooldowns = 1)

\* C7 amended: 429, 429, success returns the payload and smartPause
\* registers exactly two cooldowns, one for each rate-limited attempt.
C7_TwoCooldowns ==
  (variant = "part_002" /\ rpc = "returned"
     /\ outcomes = RateLimitedTwice) =>
    (callResult = "payload" /\ cooldowns = 2
       /\ sleeps[1].pause > 0 /\ sleeps[2].pause > 0)

C7_Witness ==
  /\ variant = "part_002"
  /\ rpc = "returned"
  /\ outcomes = RateLimitedTwice

\* C8: fetchWithRetry never throws to its caller; it returns the parsed
\* payload or null, the payload only from an attempt answered 2xx with a
\* parsable body.
C8_NeverThrows ==
  /\ rpc # "threw"
  /\ rpc = "returned" =>
       /\ callResult \in {"payload", "null"}
       /\ callResult = "payload" <=> outcomes[Len(outcomes)] = "200"

\* a call whose last allowed attempt ended in the catch block
C8_Witness ==
  /\ rpc = "returned"
  /\ Len(outcomes) = RETRY_TIMES + 1
  /\ outcomes[Len(outcomes)] \in Exceptions \cup {"200_badjson"}
  /\ \E k \in 1..Len(outcomes) : outcomes[k] = "200_badjson"

\* the attempts of the current call that have been dealt with
Handled == 1..Len(sleeps)

RetriedAfterCooldown(j) ==
  /\ sleeps[j].pause > 0
  /\ j <= RETRY_TIMES => (Len(outcomes) > j \/ rpc = "attempt")

TerminalAtOnce(j) ==
  /\ j = Len(outcomes)
  /\ rpc = "returned"
  /\ callResult = "null"
  /\ sleeps[j].pause = 0

RetriedStatuses ==
  IF variant = "part_002" THEN {"429", "403", "502", "503"}
  ELSE {"429", "403"}

Tech == <<"T", "e", "c", "h">>

\* what the dividends endpoint may hand to fetchStockData
EntityDivs ==
  { NullDiv,
    DivResponse("nodata", Undefined, Undefined),
    DivResponse("data", Undefined, Str(<<"1", ".", "2", "0">>)),
    DivResponse("data", Str(C_NA), Str(<<"1", ".", "2", "0">>)),
    DivResponse("data", Str(<<"0", ".", "0", "0", "%">>),
                Str(<<"1", ".", "2", "0">>)),
    DivResponse("data", Str(<<"3", "%">>), Str(C_Zero)),
    DivResponse("data", Str(<<"3", "%">>), Str(<<"1", ".", "2", "0">>)) }

EntityProfiles ==
  { NullProfile,
    ProfileResponse("nodata", Undefined),
    ProfileResponse("data", Undefined),
    ProfileResponse("data", Str(Tech)) }

EntityPegs ==
  { NullPeg,
    PegResponse("nodata", Undefined),
    PegResponse("malformed", Undefined),
    PegResponse("data", Num(0)),
    PegResponse("data", Num(5)) }

EntityFins ==
  { NullFin,
    FinResponse("nodata", Undefined, Undefined, NoValue),
    FinResponse("data", Str(<<"$", "1", "6", "0">>), Str(C_Dashes),
                <<"N", "a", "N", "%">>),
    FinResponse("data", Str(<<"$", "1", "6", "0">>), Str(<<"$", "1", "0">>),
                <<"1", "0", "0", ".", "0", "%">>) }

EntitySources ==
  {Bundle(d, p, g, f) : d \in EntityDivs, p \in EntityProfiles,
                        g \in EntityPegs, f \in EntityFins}

\* the entity fetchStockData is called for
entity == Listing[1]

Supplementary == {"profile", "peg", "financials"}

\* the first request of fetchStockData (part_002 line 304, part_001 line 721)
firstRequests == <<"dividends">>

\* the requests issued once the dividends response is in, with no test of
\* the payload
afterDividends_unvalidated(v, div) ==
  IF v = "part_002" THEN <<"profile">> ELSE <<"profile", "peg">>

\* the requests issued once the dividends response is in: none when the
\* payload is rejected (part_002 lines 308-321, part_001 lines 725-739),
\* else the profile request (part_002 line 330) or the profile request and
\* the first request of fetchGrowthRate (part_001 lines 742-745)
afterDividends(v, div) ==
  IF primaryRejected(div) THEN << >>
  ELSE IF v = "part_002" THEN <<"profile">> ELSE <<"profile", "peg">>

\* part_002 line 341: fetchGrowthRate is called once the profile is in
afterProfile(v) == IF v = "part_002" THEN <<"peg">> ELSE << >>

\* the financials request made whatever the analyst source gave
afterPeg_always(peg) == <<"financials">>

\* the financials request is made when the analyst source gave no rate
\* (part_002 line 269, part_001 line 684)
afterPeg(peg) ==
  IF pegGrowth(peg).growthRate = NoValue THEN <<"financials">> ELSE << >>

SeqSet(seq) == {seq[k] : k \in 1..Len(seq)}

InitEntity ==
  /\ \E b \in EntitySources : source = [sym \in Symbols |-> b]
  /\ InitRunVars
  /\ InitAuxVars
  /\ variant \in {"part_002", "part_001"}
  /\ rpc = "idle"
  /\ attempt = 0
  /\ consecutiveErrors = 0
  /\ currentUAIndex = 0
  /\ uaUsed = << >>
  /\ outcomes = << >>
  /\ sleeps = << >>
  /\ cooldowns = 0
  /\ callResult = "none"
  /\ calls = 0

\* what an answered request leads to: the next requests are issued, and
\* fetchStockData resolves when none is outstanding
Answered(e, next) ==
  /\ pending' = (pending \ {e}) \cup SeqSet(next)
  /\ requests' = requests \o next
  /\ IF (pending \ {e}) \cup SeqSet(next) = {}
       THEN /\ epc' = "done"
            /\ entityResult' = fetchStockData(entity, source[entity.symbol])
       ELSE /\ epc' = "running"
            /\ entityResult' = entityResult

\* fetchStockData is called: the dividends request goes out
CallFetchStockData ==
  /\ epc = "idle"
  /\ requests' = firstRequests
  /\ pending' = SeqSet(firstRequests)
  /\ epc' = "running"
  /\ UNCHANGED <<runVars, tallyVars, retryVars, runLogVars, batchVars,
                 storeVars, paceVars, statVars, histVars, entityResult>>

\* the dividends call returns (part_002 lines 304-321, part_001 lines
\* 721-745)
AnswerDividends ==
  /\ epc = "running"
  /\ "dividends" \in pending
  /\ Answered("dividends",
              afterDividends(variant, source[entity.symbol].div))
  /\ UNCHANGED <<runVars, tallyVars, retryVars, runLogVars, batchVars,
                 storeVars, paceVars, statVars, histVars>>

\* the company-profile call returns (part_002 lines 330-341, part_001 line
\* 743)
AnswerProfile ==
  /\ epc = "running"
  /\ "profile" \in pending
  /\ Answered("profile", afterProfile(variant))
  /\ UNCHANGED <<runVars, tallyVars, retryVars, runLogVars, batchVars,
                 storeVars, paceVars, statVars, histVars>>

\* the peg-ratio call returns (part_002 lines 251-273, part_001 lines
\* 668-686)
AnswerPeg ==
  /\ epc = "running"
  /\ "peg" \in pending
  /\ Answered("peg", afterPeg(source[entity.symbol].peg))
  /\ UNCHANGED <<runVars, tallyVars, retryVars, runLogVars, batchVars,
                 storeVars, paceVars, statVars, histVars>>

\* the financials call returns (part_002 lines 273-297, part_001 lines
\* 686-714)
AnswerFinancials ==
  /\ epc = "running"
  /\ "financials" \in pending
  /\ Answered("financials", << >>)
  /\ UNCHANGED <<runVars, tallyVars, retryVars, runLogVars, batchVars,
                 storeVars, paceVars, statVars, histVars>>

NextEntity ==
  \/ CallFetchStockData
  \/ AnswerDividends
  \/ AnswerProfile
  \/ AnswerPeg
  \/ AnswerFinancials

SpecEntity == InitEntity /\ [][NextEntity]_vars

(***************************************************************************)
(* Properties of fetchStockData                                            *)
(***************************************************************************)
\* the dividends call has returned a payload that passes the validation
PrimaryValidated ==
  /\ requests # << >>
  /\ requests[1] = "dividends"
  /\ "dividends" \notin pending
  /\ ~primaryRejected(source[entity.symbol].div)

\* C13: no supplementary request (profile, peg, financials) is issued
\* before the dividends request of the entity has returned a payload that
\* passes validation; when the primary fetch or the validation fails, none
\* is issued at all.
C13_PrimaryGatesSupplementary ==
  /\ (SeqSet(requests) \cap Supplementary # {}) => PrimaryValidated
  /\ (epc = "done" /\ primaryRejected(source[entity.symbol].div)) =>
       requests = <<"dividends">>

\* the batched variant had its profile and peg requests in flight together
\* and went on to the financials
C13_Witness ==
  /\ variant = "part_001"
  /\ epc = "done"
  /\ requests = <<"dividends", "profile", "peg", "financials">>

SupplementaryAllFailed(src) ==
  /\ src.profile.kind = "null"
  /\ src.peg.kind = "null"
  /\ src.fin.kind = "null"

\* C14: an entity whose dividends payload passes validation is recorded
\* whatever its supplementary calls return, and one whose payload is
\* rejected is not.
C14_PrimaryAloneMandatory ==
  epc = "done" =>
    LET src == source[entity.symbol]
    IN /\ ~primaryRejected(src.div) =>
            /\ ~entityResult.isNull
            /\ entityResult.symbol = entity.symbol
            /\ entityResult.dividendYield = src.div.yield.s
       /\ primaryRejected(src.div) => entityResult = Null

\* an entity recorded although every supplementary call returned null
C14_Witness ==
  /\ epc = "done"
  /\ SupplementaryAllFailed(source[entity.symbol])
  /\ Len(requests) = 4
  /\ ~entityResult.isNull
  /\ entityResult.growthRate = C_NA

(***************************************************************************)
(* The batched collector: fetchDividendStocks of part_001.  fetchStockData *)
(* computes the record as in part_002 (part_001 lines 718-776); the rows   *)
(* of a batch are started together and settle in any order.                *)
(***************************************************************************)
\* the listings the screener may answer: distinct symbols, or the first
\* symbol on two rows
UniqueRows ==
  [k \in 1..NumRows |->
     [symbol |-> SymbolNames[k],
      sector |-> IF k % 2 = 0 THEN Str(<<"F", "i", "n">>) ELSE Str(NoValue)]]

RepeatedRows ==
  [k \in 1..NumRows |->
     [symbol |-> SymbolNames[IF k = 1 THEN 1 ELSE k - 1],
      sector |-> IF k % 2 = 0 THEN Str(<<"F", "i", "n">>) ELSE Str(NoValue)]]

BatchListings == {UniqueRows, RepeatedRows}

BatchSymbols == {SymbolNames[k] : k \in 1..NumRows}

\* the primary call fails, the payload is rejected, the entity is recorded
BatchSources == {b \in Sources : b.fin.kind = "null"}

\* part_001 lines 636-648: the processed symbols only
loadProgressP1From(pf) ==
  IF pf.state = "ok" /\ pf.age < StaleHoursP1
    THEN pf.processedSymbols ELSE {}

Min(a, b) == IF a < b THEN a ELSE b

\* remainingStocks.slice(i, i + CONFIG.BATCH_SIZE), as row numbers
BatchRows(from, rows) == (from + 1)..Min(from + BATCH_SIZE_P1, Len(rows))

RECURSIVE FetchOps(_, _, _)
FetchOps(rows, from, to) ==
  IF from > to THEN << >>
  ELSE <<Op("fetch", rows[from].symbol)>> \o FetchOps(rows, from + 1, to)

\* the forEach of lines 896-901 over rows from..to
RECURSIVE PushResults(_, _, _, _)
PushResults(stocks, res, from, to) ==
  IF from > to THEN stocks
  ELSE PushResults(IF res[from].isNull THEN stocks
                   ELSE Append(stocks, res[from]),
                   res, from + 1, to)

InitBatch ==
  /\ source \in [BatchSymbols -> BatchSources]
  /\ InitRunVars
  /\ InitRetryVars
  /\ InitAuxVars

\* the process is started
BatchStart ==
  /\ ~Running
  /\ runs < MaxBatchRuns
  /\ runs' = runs + 1
  /\ pc' = "listing"
  /\ allStocks' = << >>
  /\ processedSymbols' = {}
  /\ dividendStocks' = << >>
  /\ remainingStocks' = << >>
  /\ i' = 0
  /\ resumed' = FALSE
  /\ log' = << >>
  /\ loadedSymbols' = {}
  /\ inFlight' = {}
  /\ results' = << >>
  /\ priorStocks' = << >>
  /\ UNCHANGED <<source, progressFile, partialFile, outputFile, status,
                 saved, lastStop, crashStocks, clean, reportRun, savedStocks,
                 tallyVars, retryVars, entityVars, storeVars,
                 paceVars, statVars, histVars>>

\* lines 867-876
BatchFetchListing ==
  /\ pc = "listing"
  /\ \/ /\ \E rows \in BatchListings : allStocks' = rows
        /\ pc' = "load"
     \/ /\ allStocks' = << >>
        /\ pc' = "aborted"
  /\ log' = Append(log, Op("listing", ""))
  /\ UNCHANGED <<source, progressFile, partialFile, outputFile,
                 processedSymbols, dividendStocks, remainingStocks, i, runs,
                 status, saved, lastStop, crashStocks, clean, resumed,
                 reportRun, loadedSymbols, batchVars, tallyVars, retryVars,
                 entityVars, storeVars,
                 paceVars, statVars, histVars>>

\* BatchLoadProgress keeping every row of the listing in remainingStocks
BatchLoadProgress_noFilter ==
  /\ pc = "load"
  /\ LET symbols == loadProgressP1From(progressFile)
     IN /\ processedSymbols' = symbols
        /\ loadedSymbols' = symbols
        /\ resumed' = (symbols # {})
        /\ priorStocks' = IF symbols # {} THEN savedStocks ELSE << >>
        /\ remainingStocks' = allStocks
  /\ dividendStocks' = << >>
  /\ i' = 0
  /\ log' = Append(log, Op("load", ""))
  /\ pc' = "batch"
  /\ UNCHANGED <<source, progressFile, partialFile, outputFile, allStocks,
                 runs, status, saved, lastStop, crashStocks, clean,
                 reportRun, inFlight, results, savedStocks, tallyVars,
                 retryVars, entityVars, storeVars,
                 paceVars, statVars, histVars>>

\* lines 879-883: the record list starts empty whatever was loaded
BatchLoadProgress ==
  /\ pc = "load"
  /\ LET symbols == loadProgressP1From(progressFile)
     IN /\ processedSymbols' = symbols
        /\ loadedSymbols' = symbols
        /\ resumed' = (symbols # {})
        /\ priorStocks' = IF symbols # {} THEN savedStocks ELSE << >>
        /\ remainingStocks' =
             SelectSeq(allStocks, LAMBDA st : st.symbol \notin symbols)
  /\ dividendStocks' = << >>
  /\ i' = 0
  /\ log' = Append(log, Op("load", ""))
  /\ pc' = "batch"
  /\ UNCHANGED <<source, progressFile, partialFile, outputFile, allStocks,
                 runs, status, saved, lastStop, crashStocks, clean,
                 reportRun, inFlight, results, savedStocks, tallyVars,
                 retryVars, entityVars, storeVars,
                 paceVars, statVars, histVars>>

\* lines 889-894: the loop test, the slice, and fetchStockData called for
\* every row of the batch
StartBatch ==
  /\ pc = "batch"
  /\ IF i < Len(remainingStocks)
       THEN LET rows == BatchRows(i, remainingStocks)
            IN /\ inFlight' = inFlight \cup rows
               /\ results' = [k \in rows |-> Null]
               /\ log' = log \o FetchOps(remainingStocks, i + 1,
                                         Min(i + BATCH_SIZE_P1,
                                             Len(remainingStocks)))
               /\ pc' = "join"
       ELSE /\ UNCHANGED <<inFlight, results, log>>
            /\ pc' = "report"
  /\ UNCHANGED <<source, progressFile, partialFile, outputFile, allStocks,
                 processedSymbols, dividendStocks, remainingStocks, i, runs,
                 status, saved, lastStop, crashStocks, clean, resumed,
                 reportRun, loadedSymbols, savedStocks, priorStocks,
                 tallyVars, retryVars, entityVars, storeVars,
                 paceVars, statVars, histVars>>

\* SettleRow marking the row processed and pushing its record as soon as
\* its fetchStockData resolves
SettleRow_pushes ==
  /\ pc = "join"
  /\ \E k \in inFlight :
       LET res == fetchStockData(remainingStocks[k],
                                 source[remainingStocks[k].symbol])
       IN /\ inFlight' = inFlight \ {k}
          /\ results' = [results EXCEPT ![k] = Null]
          /\ processedSymbols' =
               processedSymbols \cup {remainingStocks[k].symbol}
          /\ dividendStocks' = IF res.isNull THEN dividendStocks
                               ELSE Append(dividendStocks, res)
  /\ UNCHANGED <<source, progressFile, partialFile, outputFile, pc,
                 allStocks, remainingStocks, i, runs, status, saved,
                 lastStop, crashStocks, clean, resumed, reportRun,
                 runLogVars, savedStocks, priorStocks, tallyVars, retryVars,
                 entityVars, storeVars, paceVars, statVars, histVars>>

\* the fetchStockData of one row of the batch resolves
SettleRow ==
  /\ pc = "join"
  /\ \E k \in inFlight :
       /\ inFlight' = inFlight \ {k}
       /\ results' =
            [results EXCEPT
               ![k] = fetchStockData(remainingStocks[k],
                                     source[remainingStocks[k].symbol])]
  /\ UNCHANGED <<runVars, runLogVars, savedStocks, priorStocks, tallyVars,
                 retryVars, entityVars, storeVars,
                 paceVars, statVars, histVars>>

\* JoinBatch going on as soon as one row of the batch has resolved
JoinBatch_first ==
  /\ pc = "join"
  /\ Cardinality(inFlight) < Cardinality(DOMAIN results)
  /\ LET from == i + 1
         to == Min(i + BATCH_SIZE_P1, Len(remainingStocks))
         processed == processedSymbols \cup
                        {remainingStocks[k].symbol : k \in from..to}
     IN /\ processedSymbols' = processed
        /\ dividendStocks' = PushResults(dividendStocks, results, from, to)
        /\ pc' = IF Cardinality(processed) % SAVE_INTERVAL_P1 = 0
                   THEN "save" ELSE "delay"
  /\ UNCHANGED <<source, progressFile, partialFile, outputFile, allStocks,
                 remainingStocks, i, runs, status, saved, lastStop,
                 crashStocks, clean, resumed, reportRun, runLogVars,
                 batchVars, tallyVars, retryVars, entityVars, storeVars,
                 paceVars, statVars, histVars>>

\* lines 892-921: Promise.all resolves when every row has, the rows are
\* marked processed and their records pushed, the save cadence is tested
JoinBatch ==
  /\ pc = "join"
  /\ inFlight = {}
  /\ LET from == i + 1
         to == Min(i + BATCH_SIZE_P1, Len(remainingStocks))
         processed == processedSymbols \cup
                        {remainingStocks[k].symbol : k \in from..to}
     IN /\ processedSymbols' = processed
        /\ dividendStocks' = PushResults(dividendStocks, results, from, to)
        /\ pc' = IF Cardinality(processed) % SAVE_INTERVAL_P1 = 0
                   THEN "save" ELSE "delay"
  /\ UNCHANGED <<source, progressFile, partialFile, outputFile, allStocks,
                 remainingStocks, i, runs, status, saved, lastStop,
                 crashStocks, clean, resumed, reportRun, runLogVars,
                 batchVars, tallyVars, retryVars, entityVars, storeVars,
                 paceVars, statVars, histVars>>

\* lines 624-633: saveProgress writes the processed symbols and the counts
BatchSaveProgress ==
  /\ pc = "save"
  /\ progressFile' =
       ProgressDoc("ok", 0, processedSymbols, Len(dividendStocks))
  /\ savedStocks' = dividendStocks
  /\ log' = Append(log, Op("save", ""))
  /\ pc' = "delay"
  /\ UNCHANGED <<source, partialFile, outputFile, allStocks, processedSymbols,
                 dividendStocks, remainingStocks, i, runs, status, saved,
                 lastStop, crashStocks, clean, resumed, reportRun,
                 loadedSymbols, inFlight, results, priorStocks, tallyVars,
                 retryVars, entityVars, storeVars,
                 paceVars, statVars, histVars>>

\* line 923 and the i += CONFIG.BATCH_SIZE of line 889
BatchDelay ==
  /\ pc = "delay"
  /\ i' = i + BATCH_SIZE_P1
  /\ pc' = "batch"
  /\ UNCHANGED <<source, progressFile, partialFile, outputFile, allStocks,
                 processedSymbols, dividendStocks, remainingStocks, runs,
                 status, saved, lastStop, crashStocks, clean, resumed,
                 reportRun, runLogVars, batchVars, tallyVars, retryVars,
                 entityVars, storeVars,
                 paceVars, statVars, histVars>>

\* lines 929-983: sort in place, build the report, write OUTPUT_FILE
BatchWriteReport ==
  /\ pc = "report"
  /\ LET sorted == SortByYield(dividendStocks)
     IN /\ dividendStocks' = sorted
        /\ outputFile' = [NoOutput EXCEPT
                            !.state = "ok",
                            !.stocks = sorted,
                            !.totalScanned = Len(allStocks),
                            !.totalDividendStocks = Len(sorted)]
  /\ reportRun' = runs
  /\ log' = Append(log, Op("report", ""))
  /\ pc' = "clear"
  /\ UNCHANGED <<source, progressFile, partialFile, allStocks,
                 processedSymbols, remainingStocks, i, runs, status, saved,
                 lastStop, crashStocks, clean, resumed, loadedSymbols,
                 batchVars, tallyVars, retryVars, entityVars, storeVars,
                 paceVars, statVars, histVars>>

\* lines 984 and 651-657
BatchClearProgress ==
  /\ pc = "clear"
  /\ progressFile' = NoProgress
  /\ savedStocks' = << >>
  /\ log' = Append(log, Op("clear", ""))
  /\ pc' = "done"
  /\ UNCHANGED <<source, partialFile, outputFile, allStocks, processedSymbols,
                 dividendStocks, remainingStocks, i, runs, status, saved,
                 lastStop, crashStocks, clean, resumed, reportRun,
                 loadedSymbols, inFlight, results, priorStocks, tallyVars,
                 retryVars, entityVars, storeVars,
                 paceVars, statVars, histVars>>

\* the process is stopped from outside; its memory is lost, the progress
\* file may be left torn when it was being written
BatchStop ==
  /\ Running
  /\ pc' = "stopped"
  /\ crashStocks' = dividendStocks
  /\ progressFile' \in
       IF pc = "save" THEN {progressFile, TornProgress} ELSE {progressFile}
  /\ allStocks' = << >>
  /\ processedSymbols' = {}
  /\ dividendStocks' = << >>
  /\ remainingStocks' = << >>
  /\ i' = 0
  /\ resumed' = FALSE
  /\ log' = << >>
  /\ loadedSymbols' = {}
  /\ inFlight' = {}
  /\ results' = << >>
  /\ priorStocks' = << >>
  /\ UNCHANGED <<source, partialFile, outputFile, runs, status, saved,
                 lastStop, clean, reportRun, savedStocks, tallyVars,
                 retryVars, entityVars, storeVars,
                 paceVars, statVars, histVars>>

NextBatch ==
  \/ BatchStart
  \/ BatchFetchListing
  \/ BatchLoadProgress
  \/ StartBatch
  \/ SettleRow
  \/ JoinBatch
  \/ BatchSaveProgress
  \/ BatchDelay
  \/ BatchWriteReport
  \/ BatchClearProgress
  \/ BatchStop
  \/ Tick

SpecBatch == InitBatch /\ [][NextBatch]_vars

(***************************************************************************)
(* Properties of the batched collector                                     *)
(***************************************************************************)
\* C12: at most BATCH_SIZE rows have their fetchStockData in flight, all of
\* them rows of the current batch, and no row of the next batch is started
\* before every row of the current batch has settled and been processed.
C12_BatchBounded ==
  /\ Cardinality(inFlight) <= BATCH_SIZE_P1
  /\ inFlight \subseteq BatchRows(i, remainingStocks)
  /\ CountOps(log, "fetch") <= i + BATCH_SIZE_P1
  /\ CountOps(log, "fetch") > i =>
       \A k \in 1..i : remainingStocks[k].symbol \in processedSymbols

\* the second batch with one row settled and the other still in flight
C12_Witness ==
  /\ pc = "join"
  /\ i = BATCH_SIZE_P1
  /\ Cardinality(inFlight) = 1
  /\ Cardinality(DOMAIN results) = 2

\* the multiples of k in (from, to]
MultiplesPassed(from, to, k) == (to \div k) - (from \div k)

\* C15: during a run the processed count never passes a multiple of
\* SAVE_INTERVAL without a saveProgress call for it.
C15_SaveEveryK ==
  pc # "save" =>
    CountOps(log, "save") >=
      MultiplesPassed(Cardinality(loadedSymbols),
                      Cardinality(processedSymbols), SAVE_INTERVAL_P1)

\* the symbols fetchStockData was called for, in call order
RECURSIVE FetchedSymbols(_)
FetchedSymbols(l) ==
  IF l = << >> THEN << >>
  ELSE FetchedSymbols(SubSeq(l, 1, Len(l) - 1)) \o
         (IF l[Len(l)].op = "fetch" THEN <<l[Len(l)].sym>> ELSE << >>)

\* the rows of the listing whose symbol loadProgress did not return
ToAttempt ==
  LET rows == SelectSeq(allStocks,
                        LAMBDA st : st.symbol \notin loadedSymbols)
  IN [k \in 1..Len(rows) |-> rows[k].symbol]

IsPrefix(a, b) == Len(a) <= Len(b) /\ a = SubSeq(b, 1, Len(a))

\* C19: a run issues no request for an entity whose symbol is in the
\* processed set loadProgress returned, and attempts every other row of the
\* listing exactly once, in listing order.
C19_ResumeSkipsProcessed ==
  /\ \A k \in 1..Len(log) :
       log[k].op = "fetch" => log[k].sym \notin loadedSymbols
  /\ IsPrefix(FetchedSymbols(log), ToAttempt)
  /\ CountOps(log, "report") > 0 => FetchedSymbols(log) = ToAttempt

\* a resumed run completed over a listing part of which it skipped
C19_Witness ==
  /\ pc = "done"
  /\ resumed
  /\ SymbolsOf(allStocks) \cap loadedSymbols # {}
  /\ Len(FetchedSymbols(log)) >= 2

\* C20: the report of a run resumed from a checkpoint holds every record
\* that had been collected when the checkpoint was saved.
C20_NoPartialLoss ==
  (ReportWritten /\ resumed) =>
    RecordSet(priorStocks) \subseteq RecordSet(outputFile.stocks)

(***************************************************************************)
(* The checkpoint functions saveProgress, loadProgress and clearProgress   *)
(* of both variants, called one after the other on files in every state a  *)
(* run can leave them in.                                                  *)
(***************************************************************************)
StoreSymbols == {SymbolNames[1], SymbolNames[2]}

\* the record of a dividend payer
StoreRecord(sym) ==
  fetchStockData([symbol |-> sym, sector |-> Str(NoValue)],
                 Bundle(DivResponse("data", Str(<<"3", "%">>),
                                    Str(<<"1", ".", "2", "0">>)),
                        NullProfile, NullPeg, NullFin))

\* PROGRESS_FILE: absent, torn, or written by an earlier saveProgress
StoreProgressFiles ==
  {NoProgress, TornProgress} \cup
    {ProgressDoc("ok", 0, syms, n) :
       syms \in (SUBSET StoreSymbols) \ {{}}, n \in {0}}

\* PARTIAL_FILE: absent, torn, or the records of an earlier saveProgress
StorePartialFiles ==
  {NoPartial, TornPartial, PartialDoc("ok", <<StoreRecord(SymbolNames[1])>>)}

\* the staleness window of the variant, in hours
Window(v) == IF v = "part_002" THEN StaleHours ELSE StaleHoursP1

\* what loadProgress hands to fetchDividendStocks: part_002 lines 214-231
\* and 461-462, part_001 lines 636-648 and 879-880
LoadView(v, pf, tf) ==
  IF v = "part_002" THEN loadProgressFrom(pf, tf)
  ELSE [processedSymbols |-> loadProgressP1From(pf),
        partialStocks |-> << >>]

\* the two files after saveProgress: part_002 lines 197-211, part_001
\* lines 624-633
saveProgress(v, tf, symbols, stocks) ==
  [progress |-> ProgressDoc("ok", 0, symbols, Len(stocks)),
   partial |-> IF v = "part_002" THEN writePartial(tf, stocks) ELSE tf]

InitStore ==
  /\ source = [sym \in Symbols |-> Bundle(NullDiv, NullProfile, NullPeg,
                                           NullFin)]
  /\ variant \in {"part_002", "part_001"}
  /\ progressFile \in StoreProgressFiles
  /\ partialFile \in
       IF variant = "part_002" THEN StorePartialFiles ELSE {NoPartial}
  /\ outputFile = NoOutput
  /\ pc = "stopped"
  /\ allStocks = << >>
  /\ processedSymbols \in SUBSET StoreSymbols
  /\ dividendStocks \in
       {<< >>} \cup {<<StoreRecord(sym)>> : sym \in processedSymbols}
  /\ remainingStocks = << >>
  /\ i = 0
  /\ totalRequests = 0
  /\ successRequests = 0
  /\ failedRequests = 0
  /\ runs = 0
  /\ status = [sym \in Symbols |-> "Pending"]
  /\ saved = FALSE
  /\ lastStop = "none"
  /\ crashStocks = << >>
  /\ clean = TRUE
  /\ resumed = FALSE
  /\ reportRun = 0
  /\ log = << >>
  /\ loadedSymbols = {}
  /\ rpc = "idle"
  /\ attempt = 0
  /\ consecutiveErrors = 0
  /\ currentUAIndex = 0
  /\ uaUsed = << >>
  /\ outcomes = << >>
  /\ sleeps = << >>
  /\ cooldowns = 0
  /\ callResult = "none"
  /\ calls = 0
  /\ InitAuxVars

storeFrame ==
  <<source, outputFile, pc, allStocks, remainingStocks, i, runs, status,
    saved, lastStop, crashStocks, clean, resumed, reportRun, tallyVars,
    retryVars, runLogVars, batchVars, entityVars, paceVars, statVars, histVars>>

\* saveProgress(dividendStocks, processedSymbols, errors)
StoreSave ==
  /\ LET files == saveProgress(variant, partialFile, processedSymbols,
                               dividendStocks)
     IN /\ progressFile' = files.progress
        /\ partialFile' = files.partial
        /\ viewAfterSave' =
             IF lastOp \in {"save", "save2"} THEN viewAfterSave
             ELSE LoadView(variant, files.progress, files.partial)
  /\ lastOp' = IF lastOp \in {"save", "save2"} THEN "save2" ELSE "save"
  /\ UNCHANGED <<storeFrame, processedSymbols, dividendStocks, view>>

\* loadProgress()
StoreLoad ==
  /\ view' = LoadView(variant, progressFile, partialFile)
  /\ lastOp' = "load"
  /\ UNCHANGED <<storeFrame, progressFile, partialFile, processedSymbols,
                 dividendStocks, viewAfterSave>>

\* clearProgress(): part_002 lines 234-239, part_001 lines 651-657
StoreClear ==
  /\ progressFile' = NoProgress
  /\ partialFile' = IF variant = "part_002" THEN NoPartial ELSE partialFile
  /\ lastOp' = "clear"
  /\ UNCHANGED <<storeFrame, processedSymbols, dividendStocks, view,
                 viewAfterSave>>

\* the caller processes one more entity, with or without a record
StoreProcess ==
  /\ \E sym \in StoreSymbols \ processedSymbols, recorded \in BOOLEAN :
       /\ processedSymbols' = processedSymbols \cup {sym}
       /\ dividendStocks' =
            IF recorded THEN Append(dividendStocks, StoreRecord(sym))
            ELSE dividendStocks
  /\ lastOp' = "process"
  /\ UNCHANGED <<storeFrame, progressFile, partialFile, view, viewAfterSave>>

\* time passes: Date.now() - timestamp grows
StoreTick ==
  /\ progressFile.state = "ok"
  /\ progressFile.age <= StaleHours
  /\ progressFile' = [progressFile EXCEPT !.age = @ + TickHours]
  /\ lastOp' = "tick"
  /\ UNCHANGED <<storeFrame, partialFile, processedSymbols, dividendStocks,
                 view, viewAfterSave>>

NextStore ==
  \/ StoreSave
  \/ StoreLoad
  \/ StoreClear
  \/ StoreProcess
  \/ StoreTick

SpecStore == InitStore /\ [][NextStore]_vars

(***************************************************************************)
(* Properties of the checkpoint functions                                  *)
(***************************************************************************)
\* the partial records on disk
PersistedPartial ==
  IF variant = "part_002" /\ partialFile.state = "ok"
    THEN partialFile.stocks ELSE << >>

PersistedState ==
  [processedSymbols |-> progressFile.processedSymbols,
   partialStocks |-> PersistedPartial]

\* C16 as stated: loadProgress returns the empty state when the timestamp
\* of the checkpoint is older than the staleness window, and the persisted
\* processed set and partial records when it is inside the window.
C16_StalenessOnly ==
  (lastOp = "load" /\ progressFile.state = "ok") =>
    /\ progressFile.age > Window(variant) => view = EmptyState
    /\ progressFile.age < Window(variant) => view = PersistedState

\* C16 amended: loadProgress returns the persisted processed set and partial
\* records when PROGRESS_FILE parses, its age is below the window of the
\* variant and (part_002) PARTIAL_FILE is absent or parses; it returns the
\* empty state in every other case: no file, a file that does not parse, an
\* age of the window or more.
C16_StalenessAndParse ==
  lastOp = "load" =>
    view = IF /\ progressFile.state = "ok"
              /\ progressFile.age < Window(variant)
              /\ variant = "part_002" => partialFile.state # "corrupt"
             THEN PersistedState
             ELSE EmptyState

\* a checkpoint with processed symbols rejected for its age
C16_Witness ==
  /\ lastOp = "load"
  /\ progressFile.state = "ok"
  /\ progressFile.processedSymbols # {}
  /\ progressFile.age >= Window(variant)
  /\ view = EmptyState

\* C17: after two saveProgress calls in a row with the same processed set
\* and record list, loadProgress reconstructs the same state as after the
\* first of them.
C17_SaveIdempotent ==
  lastOp = "save2" =>
    LoadView(variant, progressFile, partialFile) = viewAfterSave

\* saved twice in a row with records
C17_Witness ==
  /\ lastOp = "save2"
  /\ variant = "part_002"
  /\ dividendStocks # << >>
  /\ viewAfterSave.partialStocks = dividendStocks
  /\ viewAfterSave.processedSymbols = processedSymbols

(***************************************************************************)
(* Properties of the throttle counters (part_002)                          *)
(***************************************************************************)
\* the step that deals with an attempt answered 429, 403, 502 or 503
PausedAttempt ==
  /\ variant = "part_002"
  /\ rpc = "classify"
  /\ outcomes[Len(outcomes)] \in {"429", "403", "502", "503"}

\* the step in which smartPause takes the long pause
TripStep ==
  /\ Len(sleeps') = Len(sleeps) + 1
  /\ sleeps'[Len(sleeps')].tripped

\* C21: when the consecutive-failure counter reaches MAX_CONSECUTIVE_ERRORS,
\* smartPause sleeps LONG_PAUSE and nothing else for that attempt and sets
\* the counter back to 0; below the ceiling it sleeps the rate-limit or the
\* error pause; the counter always lies in 0..MAX_CONSECUTIVE_ERRORS - 1.
C21_CircuitBreaker ==
  /\ [](variant = "part_002" =>
          consecutiveErrors \in 0..(MAX_CONSECUTIVE_ERRORS - 1))
  /\ [][PausedAttempt =>
          IF consecutiveErrors + 1 = MAX_CONSECUTIVE_ERRORS
            THEN /\ TripStep
                 /\ sleeps'[Len(sleeps')].pause = Ms(LONG_PAUSE)
                 /\ cooldowns' = cooldowns + 1
                 /\ consecutiveErrors' = 0
            ELSE /\ ~TripStep
                 /\ sleeps'[Len(sleeps')].pause
                      \in {Ms(RATE_LIMIT_PAUSE), Ms(ERROR_PAUSE)}
                 /\ consecutiveErrors' = consecutiveErrors + 1]_vars

\* the breaker has just tripped on failures that span two calls
C21_Witness ==
  /\ variant = "part_002"
  /\ calls = 2
  /\ sleeps # << >>
  /\ sleeps[Len(sleeps)].tripped
  /\ sleeps[Len(sleeps)].pause = Ms(LONG_PAUSE)
  /\ consecutiveErrors = 0

\* the step in which an attempt ends in Success: the parsed payload is
\* returned to the caller
SuccessStep ==
  /\ rpc = "classify"
  /\ rpc' = "returned"
  /\ callResult' = "payload"

\* C22: after an attempt that ends in Success the consecutive-failure
\* counter is 0, and the counter is lowered by nothing but a Success or a
\* trip of the circuit breaker.
C22_OnlySuccessOrTripLowers ==
  /\ []((variant = "part_002" /\ rpc = "returned"
           /\ callResult = "payload") => consecutiveErrors = 0)
  /\ [][(variant = "part_002" /\ consecutiveErrors' < consecutiveErrors) =>
          (SuccessStep \/ TripStep)]_vars

\* the step that deals with an attempt ended by the timeout abort or by a
\* transport error
ThrownAttempt ==
  /\ variant = "part_002"
  /\ rpc = "catch"
  /\ outcomes[Len(outcomes)] \in Exceptions

\* what smartPause leaves on the counter
Counted(errors) ==
  IF errors + 1 >= MAX_CONSECUTIVE_ERRORS THEN 0 ELSE errors + 1

\* C23: every failed attempt is reported to the consecutive-failure
\* counter: an attempt ended by a timeout or a transport error counts
\* toward the circuit breaker just as an attempt answered 429, 403, 502 or
\* 503 does.
C23_EveryFailureCounted ==
  [][(PausedAttempt \/ ThrownAttempt) =>
       consecutiveErrors' = Counted(consecutiveErrors)]_vars

(***************************************************************************)
(* Properties of the User-Agent rotation (part_002)                        *)
(***************************************************************************)
UserAgents == 0..(NumUserAgents - 1)

\* the number of attempts that were sent with User-Agent number a
Uses(a) == Cardinality({k \in 1..Len(uaUsed) : uaUsed[k] = a})

\* C24: getNextUA cycles through the pool in a fixed order: each attempt
\* uses the successor of the User-Agent of the attempt before it, every
\* window of NumUserAgents consecutive attempts uses every User-Agent
\* exactly once, and the use counts of two User-Agents never differ by more
\* than 1 (each is the number of attempts divided by NumUserAgents, rounded
\* down or up).
C24_RotationEven ==
  variant = "part_002" =>
    /\ \A k \in 1..(Len(uaUsed) - 1) :
         uaUsed[k + 1] = (uaUsed[k] + 1) % NumUserAgents
    /\ \A k \in 1..(Len(uaUsed) - NumUserAgents + 1) :
         {uaUsed[j] : j \in k..(k + NumUserAgents - 1)} = UserAgents
    /\ \A a \in UserAgents :
         Uses(a) - (Len(uaUsed) \div NumUserAgents) \in {0, 1}

\* the rotation has wrapped around, in the second call of the process
C24_Witness ==
  /\ variant = "part_002"
  /\ calls = 2
  /\ Len(uaUsed) > NumUserAgents
  /\ Len(outcomes) < Len(uaUsed)

(***************************************************************************)
(* The pacing of the loop of part_002 (lines 471-510): one uninterrupted   *)
(* run over a listing of NumPaceRows rows, from the loop to the cleared    *)
(* checkpoint, with the length of every pause.                             *)
(***************************************************************************)
PaceListing ==
  [k \in 1..NumPaceRows |->
     [symbol |-> SymbolNames[k], sector |-> Str(NoValue)]]

PaceSymbols == {PaceListing[k].symbol : k \in 1..NumPaceRows}

\* a jitter that adds the whole of max to min
randomDelay_unscaled(min, max) == {min, min + (max \div 2), min + max - 1}

\* part_002 lines 100-103: the durations min + Math.random() * (max - min)
\* can take (Math.random() is in [0, 1)): the least, one in the middle, the
\* greatest whole one
randomDelay(min, max) == {min, (min + max) \div 2, max - 1}

\* the process has fetched the listing, found no checkpoint and filtered
\* nothing out (lines 446-465)
InitPace ==
  /\ source \in [PaceSymbols -> Sources]
  /\ InitRetryVars
  /\ InitAuxVars
  /\ progressFile = NoProgress
  /\ partialFile = NoPartial
  /\ outputFile = NoOutput
  /\ pc = "loop"
  /\ allStocks = PaceListing
  /\ processedSymbols = {}
  /\ dividendStocks = << >>
  /\ remainingStocks = PaceListing
  /\ i = 0
  /\ totalRequests = 1
  /\ successRequests = 1
  /\ failedRequests = 0
  /\ runs = 1
  /\ status = [sym \in PaceSymbols |-> "Pending"]
  /\ saved = FALSE
  /\ lastStop = "none"
  /\ crashStocks = << >>
  /\ clean = TRUE
  /\ resumed = FALSE
  /\ reportRun = 0
  /\ log = <<Op("listing", ""), Op("load", "")>>
  /\ loadedSymbols = {}

\* lines 504-509 and the i++ of line 471
PacedPause ==
  /\ pc = "pause"
  /\ pauseMs' \in
       IF (i + 1) % BATCH_SIZE = 0 THEN {BATCH_DELAY}
       ELSE randomDelay(MIN_DELAY, MAX_DELAY)
  /\ i' = i + 1
  /\ pc' = "loop"
  /\ UNCHANGED <<source, progressFile, partialFile, outputFile, allStocks,
                 processedSymbols, dividendStocks, remainingStocks, runs,
                 status, saved, lastStop, crashStocks, clean, resumed,
                 reportRun, tallyVars, retryVars, runLogVars, batchVars,
                 entityVars, storeVars, statVars, histVars>>

NextPace ==
  \/ LoopHead
  \/ SettleEntity
  \/ SaveProgressFile
  \/ SavePartialFile
  \/ PacedPause
  \/ WriteReport
  \/ ClearProgressFile
  \/ ClearPartialFile

SpecPace == InitPace /\ [][NextPace]_vars

(***************************************************************************)
(* Properties of the pacing of the loop (part_002)                         *)
(***************************************************************************)
\* the loop has slept after entity number i and goes on to its test
Paused == pc = "loop" /\ i > 0

\* C25 as stated: the pause between two consecutive entities is a duration
\* inside [MIN_DELAY, MAX_DELAY].
C25_PauseInRange ==
  (Paused /\ i < Len(remainingStocks)) =>
    (MIN_DELAY <= pauseMs /\ pauseMs <= MAX_DELAY)

\* C25 amended: after every entity whose number in the run is a multiple of
\* BATCH_SIZE the loop sleeps BATCH_DELAY, which lies outside the range;
\* after every other entity it sleeps a duration inside
\* [MIN_DELAY, MAX_DELAY].
C25_PauseInRangeOrBatchDelay ==
  Paused =>
    IF i % BATCH_SIZE = 0
      THEN pauseMs = BATCH_DELAY
      ELSE MIN_DELAY <= pauseMs /\ pauseMs <= MAX_DELAY

\* the loop has slept between the last entity of a group of BATCH_SIZE and
\* the entity after it, and earlier between two entities of the group
C25_Witness ==
  /\ Paused
  /\ i % BATCH_SIZE = 0
  /\ i < Len(remainingStocks)
  /\ pauseMs = BATCH_DELAY

(***************************************************************************)
(* The statistics section of the report: getSectorStats, getYieldRanges    *)
(* and the two top-10 lists (part_002 lines 365-401 and 514-568; part_001  *)
(* lines 780-816 and 929-977 are the same code).  Yields and growth rates  *)
(* are numbers of hundredths, as parseFloat returns them here.             *)
(***************************************************************************)
Unknown == <<"U", "n", "k", "n", "o", "w", "n">>
Fin == <<"F", "i", "n">>

\* the record fetchStockData returns for these field values
StatRecord(sym, yield, sector, growthRate, growthSource) ==
  [isNull |-> FALSE, symbol |-> sym, sector |-> sector,
   dividendYield |-> yield, annualDividend |-> <<"$", "1">>,
   growthRate |-> growthRate, growthSource |-> growthSource]

\* the field values a collected record may carry: yields on and next to the
\* bounds of the ranges, a yield that is not a number ('-' passes the
\* validation of lines 314-321 because NaN <= 0 is false), sectors present
\* and empty, growth rates present, negative and 'N/A'
StatFields ==
  << [yield |-> <<"1", ".", "9", "9", "%">>, sector |-> Tech,
      growthRate |-> <<"5", "%">>, growthSource |-> "Analyst Forecast"],
     [yield |-> <<"2", "%">>, sector |-> Tech,
      growthRate |-> C_NA, growthSource |-> ""],
     [yield |-> <<"4", "%">>, sector |-> NoValue,
      growthRate |-> <<"5", "%">>, growthSource |-> "4yr Revenue CAGR"],
     [yield |-> <<"6", "%">>, sector |-> Fin,
      growthRate |-> <<"-", "1", ".", "5", "%">>,
      growthSource |-> "4yr Revenue CAGR"],
     [yield |-> <<"8", "%">>, sector |-> Fin,
      growthRate |-> <<"2", "0", "%">>, growthSource |-> "Analyst Forecast"],
     [yield |-> <<"1", "0", "%">>, sector |-> NoValue,
      growthRate |-> C_NA, growthSource |-> ""],
     [yield |-> <<"1", "5", "%">>, sector |-> Tech,
      growthRate |-> <<"1", "0", "%">>, growthSource |-> "Analyst Forecast"],
     [yield |-> <<"-">>, sector |-> Fin,
      growthRate |-> <<"2", "0", "%">>,
      growthSource |-> "Analyst Forecast"] >>

\* the collection whose k-th record has the field values number pick[k]
StatCollection(pick) ==
  [k \in 1..Len(pick) |->
     StatRecord(SymbolNames[k], StatFields[pick[k]].yield,
                StatFields[pick[k]].sector, StatFields[pick[k]].growthRate,
                StatFields[pick[k]].growthSource)]

\* five records with the yields 1, 3, 5, 9, 15
YieldExample ==
  [k \in 1..5 |->
     StatRecord(SymbolNames[k],
                <<<<"1", "%">>, <<"3", "%">>, <<"5", "%">>, <<"9", "%">>,
                  <<"1", "5", "%">>>>[k],
                Tech, C_NA, "")]

StatInputs ==
  {StatCollection(pick) :
     pick \in UNION {[1..n -> 1..Len(StatFields)] : n \in 0..MaxStatLen}}
    \cup {YieldExample}

YieldRangeNames == {"0-2%", "2-4%", "4-6%", "6-8%", "8-10%", "10%+"}

\* a chain that sends a yield on a bound to the range below it
yieldRange_boundBelow(y) ==
  IF y <= 200 THEN "0-2%"
  ELSE IF y <= 400 THEN "2-4%"
  ELSE IF y <= 600 THEN "4-6%"
  ELSE IF y <= 800 THEN "6-8%"
  ELSE IF y <= 1000 THEN "8-10%"
  ELSE "10%+"

\* a chain without the test y < 10
yieldRange_no8to10(y) ==
  IF y < 200 THEN "0-2%"
  ELSE IF y < 400 THEN "2-4%"
  ELSE IF y < 600 THEN "4-6%"
  ELSE IF y < 800 THEN "6-8%"
  ELSE "10%+"

\* part_002 lines 392-397: the if / else-if chain over y
yieldRange(y) ==
  IF y < 200 THEN "0-2%"
  ELSE IF y < 400 THEN "2-4%"
  ELSE IF y < 600 THEN "4-6%"
  ELSE IF y < 800 THEN "6-8%"
  ELSE IF y < 1000 THEN "8-10%"
  ELSE "10%+"

\* part_002 lines 384-401: one increment per record, in order
RECURSIVE getYieldRanges(_)
getYieldRanges(stocks) ==
  IF stocks = << >> THEN [name \in YieldRangeNames |-> 0]
  ELSE LET ranges == getYieldRanges(SubSeq(stocks, 1, Len(stocks) - 1))
           y == yieldKey(stocks[Len(stocks)])
       IN [ranges EXCEPT ![yieldRange(y)] = @ + 1]

\* a key without the fallback for an empty sector
sectorKey_noFallback(s) == s.sector

\* s.sector || 'Unknown'
sectorKey(s) == IF s.sector = NoValue THEN Unknown ELSE s.sector

\* part_002 lines 366-374: count and totalYield of every sector seen
RECURSIVE sectorTotals(_)
sectorTotals(stocks) ==
  IF stocks = << >> THEN [sector \in {} |-> 0]
  ELSE LET stats == sectorTotals(SubSeq(stocks, 1, Len(stocks) - 1))
           s == stocks[Len(stocks)]
           sector == sectorKey(s)
           old == IF sector \in DOMAIN stats THEN stats[sector]
                  ELSE [count |-> 0, totalYield |-> 0]
       IN [k \in DOMAIN stats \cup {sector} |->
             IF k = sector
               THEN [count |-> old.count + 1,
                     totalYield |-> old.totalYield + yieldKey(s)]
               ELSE stats[k]]

\* (total / count).toFixed(2): the quotient rounded to hundredths
toFixed2(total, count) == (2 * total + count) \div (2 * count)

\* part_002 lines 365-382
getSectorStats(stocks) ==
  LET stats == sectorTotals(stocks)
  IN [sector \in DOMAIN stats |->
        [count |-> stats[sector].count,
         avgYield |-> toFixed2(stats[sector].totalYield,
                               stats[sector].count)]]

\* the entry of a top-10 list (lines 551-557)
TopEntry(s) ==
  [symbol |-> s.symbol, yield |-> s.dividendYield,
   growthRate |-> s.growthRate, growthSource |-> s.growthSource]

\* a slice that takes one record more
slice_oneMore(stocks, n) == SubSeq(stocks, 1, Min(n + 1, Len(stocks)))

\* stocks.slice(0, n)
slice(stocks, n) == SubSeq(stocks, 1, Min(n, Len(stocks)))

\* line 551
top10ByYield(stocks) ==
  LET top == slice(stocks, TopN)
  IN [k \in 1..Len(top) |-> TopEntry(top[k])]

\* parseFloat(s.growthRate) of a record that has a growth rate
growthKey(r) == ParseFloatChars(r.growthRate).v

\* line 560: descending by parseFloat(growthRate); the sort of the runtime
\* is stable
InsertByGrowth(sorted, r) ==
  LET p == Cardinality({k \in 1..Len(sorted) :
                          growthKey(sorted[k]) >= growthKey(r)})
  IN SubSeq(sorted, 1, p) \o <<r>> \o SubSeq(sorted, p + 1, Len(sorted))

RECURSIVE SortByGrowth(_)
SortByGrowth(stocks) ==
  IF stocks = << >> THEN << >>
  ELSE InsertByGrowth(SortByGrowth(SubSeq(stocks, 1, Len(stocks) - 1)),
                      stocks[Len(stocks)])

\* lines 558-561
top10ByGrowth(stocks) ==
  LET withGrowth == SelectSeq(stocks, LAMBDA s : s.growthRate # C_NA)
      top == slice(SortByGrowth(withGrowth), TopN)
  IN [k \in 1..Len(top) |-> TopEntry(top[k])]

\* lines 521-523: the list written as 'stocks' (the sorted array itself
\* while FILTER_NA is off)
finalStocks(stocks) ==
  IF FILTER_NA THEN SelectSeq(stocks, LAMBDA r : r.growthRate # C_NA)
  ELSE stocks

InitStats ==
  /\ source = [sym \in Symbols |-> Bundle(NullDiv, NullProfile, NullPeg,
                                           NullFin)]
  /\ InitRetryVars
  /\ progressFile = NoProgress
  /\ partialFile = NoPartial
  /\ outputFile = NoOutput
  /\ pc = "sort"
  /\ allStocks = << >>
  /\ processedSymbols = {}
  /\ dividendStocks \in StatInputs
  /\ collected = dividendStocks
  /\ statistics = NoStatistics
  /\ remainingStocks = << >>
  /\ i = 0
  /\ totalRequests = 0
  /\ successRequests = 0
  /\ failedRequests = 0
  /\ runs = 1
  /\ status = [sym \in Symbols |-> "Pending"]
  /\ saved = FALSE
  /\ lastStop = "none"
  /\ crashStocks = << >>
  /\ clean = TRUE
  /\ resumed = FALSE
  /\ reportRun = 0
  /\ log = << >>
  /\ loadedSymbols = {}
  /\ inFlight = {}
  /\ results = << >>
  /\ savedStocks = << >>
  /\ priorStocks = << >>
  /\ epc = "idle"
  /\ requests = << >>
  /\ pending = {}
  /\ entityResult = Null
  /\ lastOp = "none"
  /\ view = EmptyState
  /\ viewAfterSave = EmptyState
  /\ pauseMs = 0
  /\ dividends = NoDividends
  /\ dividendHistory = NotParsed

statFrame ==
  <<source, progressFile, partialFile, outputFile, allStocks,
    processedSymbols, remainingStocks, i, runs, status, saved, lastStop,
    crashStocks, clean, resumed, reportRun, tallyVars, retryVars,
    runLogVars, batchVars, entityVars, storeVars, paceVars, histVars,
    collected>>

\* lines 515-519: dividendStocks is sorted in place
SortStocks ==
  /\ pc = "sort"
  /\ dividendStocks' = SortByYield(dividendStocks)
  /\ pc' = "statistics"
  /\ UNCHANGED <<statFrame, statistics>>

\* lines 548-570: the statistics object and the record list of the report
BuildStatistics ==
  /\ pc = "statistics"
  /\ statistics' =
       [built |-> TRUE,
        bySector |-> getSectorStats(dividendStocks),
        yieldRanges |-> getYieldRanges(dividendStocks),
        top10ByYield |-> top10ByYield(dividendStocks),
        top10ByGrowth |-> top10ByGrowth(dividendStocks),
        stocks |-> finalStocks(dividendStocks)]
  /\ pc' = "written"
  /\ UNCHANGED <<statFrame, dividendStocks>>

NextStats ==
  \/ SortStocks
  \/ BuildStatistics

SpecStats == InitStats /\ [][NextStats]_vars

(***************************************************************************)
(* Properties of the statistics                                            *)
(***************************************************************************)
\* C26: for the records with the yields 1, 3, 5, 9, 15 getYieldRanges
\* returns 0-2: 1, 2-4: 1, 4-6: 1, 6-8: 0, 8-10: 1, 10+: 1.
C26_YieldExample ==
  (statistics.built /\ collected = YieldExample) =>
    statistics.yieldRanges =
      [name \in YieldRangeNames |-> IF name = "6-8%" THEN 0 ELSE 1]

C26_Witness ==
  /\ statistics.built
  /\ collected = YieldExample
  /\ statistics.yieldRanges["8-10%"] = 1

\* the bounds of the ranges, in hundredths; the last range has no upper
\* bound
RangeLow(name) ==
  CASE name = "0-2%" -> 0 [] name = "2-4%" -> 200 [] name = "4-6%" -> 400
    [] name = "6-8%" -> 600 [] name = "8-10%" -> 800
    [] name = "10%+" -> 1000

RangeHigh(name) ==
  CASE name = "0-2%" -> 200 [] name = "2-4%" -> 400 [] name = "4-6%" -> 600
    [] name = "6-8%" -> 800 [] name = "8-10%" -> 1000

InRange(y, name) ==
  /\ RangeLow(name) <= y
  /\ name # "10%+" => y < RangeHigh(name)

RECURSIVE SumOver(_, _)
SumOver(f, keys) ==
  IF keys = {} THEN 0
  ELSE LET k == CHOOSE x \in keys : TRUE
       IN f[k] + SumOver(f, keys \ {k})

\* C27: getYieldRanges counts every record in exactly one range: the counts
\* sum to the number of records, and the count of a range is the number of
\* records whose yield y (a yield that is not a number counting as 0) has
\* lo <= y < hi, the last range holding every y >= 10.
C27_OneRangePerRecord ==
  statistics.built =>
    /\ SumOver(statistics.yieldRanges, YieldRangeNames) = Len(collected)
    /\ \A name \in YieldRangeNames :
         statistics.yieldRanges[name] =
           Cardinality({k \in 1..Len(collected) :
                          InRange(yieldKey(collected[k]), name)})

\* records with yields on the bounds 2 and 10 and a yield that is not a
\* number
C27_Witness ==
  /\ statistics.built
  /\ \E j, k, m \in 1..Len(collected) :
       /\ yieldKey(collected[j]) = 200
       /\ yieldKey(collected[k]) = 1000
       /\ ParseFloatChars(collected[m].dividendYield).nan
  /\ statistics.yieldRanges["2-4%"] = 1
  /\ statistics.yieldRanges["10%+"] = 1
  /\ statistics.yieldRanges["0-2%"] = 1

\* the records of the collection that getSectorStats puts in a group
GroupOf(sector) ==
  {k \in 1..Len(collected) : sectorKey(collected[k]) = sector}

NumericYield(r) == ~ParseFloatChars(r.dividendYield).nan

RECURSIVE SumYields(_)
SumYields(rows) ==
  IF rows = {} THEN 0
  ELSE LET k == CHOOSE x \in rows : TRUE
       IN yieldKey(collected[k]) + SumYields(rows \ {k})

\* C28: in getSectorStats a record whose dividend yield is missing or not
\* a number adds zero to the sum of its group and is left out of the
\* denominator of the average: the average of a group is the sum of its
\* numeric yields divided by the number of its records that have a numeric
\* yield.
C28_NonNumericExcluded ==
  statistics.built =>
    \A sector \in DOMAIN statistics.bySector :
      LET numeric == {k \in GroupOf(sector) : NumericYield(collected[k])}
      IN numeric # {} =>
           statistics.bySector[sector].avgYield =
             toFixed2(SumYields(numeric), Cardinality(numeric))

\* the records whose sector is the given one, a record without sector
\* having the sector 'Unknown'
WithSector(sector) ==
  {k \in 1..Len(collected) :
     \/ collected[k].sector = sector
     \/ collected[k].sector = NoValue /\ sector = Unknown}

CollectedAt(sym) == CHOOSE k \in 1..Len(collected) : collected[k].symbol = sym

entryYield(e) ==
  LET y == ParseFloatChars(e.yield) IN IF y.nan THEN 0 ELSE y.v

entryGrowth(e) == ParseFloatChars(e.growthRate).v

\* the entries of a list are in descending order of their ranking value
DescendingYield(list) ==
  \A j, k \in 1..Len(list) : j < k => entryYield(list[j]) >= entryYield(list[k])

DescendingGrowth(list) ==
  \A j, k \in 1..Len(list) :
    j < k => entryGrowth(list[j]) >= entryGrowth(list[k])

InCollectionOrder(a, b) == CollectedAt(a.symbol) < CollectedAt(b.symbol)

\* C30 as stated: each of the two lists holds at most TopN records in
\* descending order of its ranking field, records of equal ranking value
\* standing in the order in which they were collected.
C30_TiesInCollectionOrder ==
  statistics.built =>
    /\ Len(statistics.top10ByYield) <= TopN
    /\ Len(statistics.top10ByGrowth) <= TopN
    /\ DescendingYield(statistics.top10ByYield)
    /\ DescendingGrowth(statistics.top10ByGrowth)
    /\ \A j, k \in 1..Len(statistics.top10ByYield) :
         LET a == statistics.top10ByYield[j]
             b == statistics.top10ByYield[k]
         IN (j < k /\ entryYield(a) = entryYield(b)) =>
              InCollectionOrder(a, b)
    /\ \A j, k \in 1..Len(statistics.top10ByGrowth) :
         LET a == statistics.top10ByGrowth[j]
             b == statistics.top10ByGrowth[k]
         IN (j < k /\ entryGrowth(a) = entryGrowth(b)) =>
              InCollectionOrder(a, b)

\* the records that have a growth rate
WithGrowth == {k \in 1..Len(collected) : collected[k].growthRate # C_NA}

\* C30 amended: each list holds the first TopN records of its ranking (all
\* of them when there are fewer) in descending order of its ranking field.
\* Records of equal yield stand in top10ByYield in the order in which they
\* were collected; records of equal growth rate stand in top10ByGrowth in
\* the order of the list already sorted by yield: the higher yield first,
\* and in the order of collection only when the yields are equal too.
C30_TiesInYieldOrder ==
  statistics.built =>
    /\ Len(statistics.top10ByYield) = Min(TopN, Len(collected))
    /\ Len(statistics.top10ByGrowth) = Min(TopN, Cardinality(WithGrowth))
    /\ DescendingYield(statistics.top10ByYield)
    /\ DescendingGrowth(statistics.top10ByGrowth)
    /\ \A j, k \in 1..Len(statistics.top10ByYield) :
         LET a == statistics.top10ByYield[j]
             b == statistics.top10ByYield[k]
         IN (j < k /\ entryYield(a) = entryYield(b)) =>
              InCollectionOrder(a, b)
    /\ \A j, k \in 1..Len(statistics.top10ByGrowth) :
         LET a == statistics.top10ByGrowth[j]
             b == statistics.top10ByGrowth[k]
         IN (j < k /\ entryGrowth(a) = entryGrowth(b)) =>
              \/ entryYield(a) > entryYield(b)
              \/ entryYield(a) = entryYield(b) /\ InCollectionOrder(a, b)

\* a full list in which two records of equal growth rate stand against the
\* order of their collection
C30_Witness ==
  /\ statistics.built
  /\ Len(collected) >= TopN
  /\ Len(statistics.top10ByGrowth) = TopN
  /\ \E j, k \in 1..Len(statistics.top10ByGrowth) :
       /\ j < k
       /\ entryGrowth(statistics.top10ByGrowth[j]) =
            entryGrowth(statistics.top10ByGrowth[k])
       /\ InCollectionOrder(statistics.top10ByGrowth[k],
                            statistics.top10ByGrowth[j])

(***************************************************************************)
(* Properties of the record list of the report                             *)
(***************************************************************************)
\* C31 as stated: the record list of the report holds the records in the
\* order in which they were inserted into the collection.
C31_StocksInInsertionOrder ==
  statistics.built => statistics.stocks = collected

\* C31 amended: the record list of the report holds every collected record
\* once, in descending order of yield (a yield that is not a number counts
\* as 0); only records of equal yield stand in the order in which they were
\* inserted.
C31_StocksSortedByYield ==
  statistics.built =>
    /\ Len(statistics.stocks) = Len(collected)
    /\ {statistics.stocks[k] : k \in 1..Len(statistics.stocks)} =
         {collected[k] : k \in 1..Len(collected)}
    /\ \A j, k \in 1..Len(statistics.stocks) :
         LET a == statistics.stocks[j]
             b == statistics.stocks[k]
         IN j < k =>
              \/ yieldKey(a) > yieldKey(b)
              \/ yieldKey(a) = yieldKey(b) /\ InCollectionOrder(a, b)

\* a report whose record list is not in insertion order, and in which two
\* records of equal yield were collected
C31_Witness ==
  /\ statistics.built
  /\ statistics.stocks # collected
  /\ \E j, k \in 1..Len(statistics.stocks) :
       /\ j < k
       /\ yieldKey(statistics.stocks[j]) = yieldKey(statistics.stocks[k])

(***************************************************************************)
(* Properties of the metadata of the report (sequential collector)         *)
(***************************************************************************)
\* the requests one uninterrupted run makes for the entities of the listing
EntityRequests ==
  SumOver([sym \in Symbols |-> Len(stockCalls(source[sym]))], Symbols)
EntitySuccesses ==
  SumOver([sym \in Symbols |-> CountKind(stockCalls(source[sym]), FALSE)],
          Symbols)
EntityFailures ==
  SumOver([sym \in Symbols |-> CountKind(stockCalls(source[sym]), TRUE)],
          Symbols)

\* C32: the metadata of the report of a resumed run that was stopped only
\* after completed saves covers all segments of the run: the record count
\* is that of an uninterrupted run, and the request statistics count at
\* least the requests an uninterrupted run makes for the entities of the
\* listing.
C32_MetadataCoversAllSegments ==
  (ReportWritten /\ resumed /\ clean) =>
    /\ outputFile.totalScanned = NumStocks
    /\ outputFile.totalDividendStocks = Cardinality(ExpectedRecords)
    /\ outputFile.requestStats.total >= EntityRequests
    /\ outputFile.requestStats.success >= EntitySuccesses
    /\ outputFile.requestStats.failed >= EntityFailures

(***************************************************************************)
(* Properties of the join point of the batched collector (part_001)        *)
(***************************************************************************)
InBatchLoop == {"batch", "join", "save", "delay"}

\* a step of the running process, not its start or its stop
ProcessStep == Running /\ pc' # "stopped"

\* C33: while a row of the batch is in flight the process changes neither
\* the record list nor the processed set nor the checkpoint; inside the
\* loop the two collections change only in the step that follows the
\* settling of the whole batch, and the checkpoint is written only by the
\* saveProgress call after that step.
C33_JoinPointOnly ==
  [][ProcessStep =>
        /\ inFlight # {} =>
             /\ dividendStocks' = dividendStocks
             /\ processedSymbols' = processedSymbols
             /\ progressFile' = progressFile
        /\ (/\ pc \in InBatchLoop
            /\ pc' \in InBatchLoop
            /\ \/ dividendStocks' # dividendStocks
               \/ processedSymbols' # processedSymbols) =>
             /\ pc = "join"
             /\ inFlight = {}
             /\ pc' \in {"save", "delay"}
        /\ (pc \in InBatchLoop /\ progressFile' # progressFile) =>
             /\ pc = "save"
             /\ inFlight = {}
             /\ progressFile'.processedSymbols = processedSymbols]_vars

\* a checkpoint is being written after the join of a batch that gave a
\* record, the batch before it having been joined too
C33_Witness ==
  /\ pc = "save"
  /\ inFlight = {}
  /\ i >= BATCH_SIZE_P1
  /\ \E k \in DOMAIN results :
       ~results[k].isNull /\ results[k] \in RecordSet(dividendStocks)

(***************************************************************************)
(* parseDividendHistory of part_000 (lines 35-75).  Amounts are in         *)
(* hundredths; the rows of the model have amounts of at most two decimals, *)
(* whose sums toFixed(2) prints exactly.                                   *)
(***************************************************************************)
\* str.includes(c)
includes(chars, c) == \E k \in 1..Len(chars) : chars[k] = c

\* index of the first c in chars
IndexOf(chars, c) ==
  CHOOSE k \in 1..Len(chars) :
    chars[k] = c /\ \A j \in 1..(k - 1) : chars[j] # c

\* str.split(sep) for a separator of one character
RECURSIVE split(_, _)
split(chars, sep) ==
  IF ~includes(chars, sep) THEN <<chars>>
  ELSE LET p == IndexOf(chars, sep)
       IN <<SubSeq(chars, 1, p - 1)>> \o
            split(SubSeq(chars, p + 1, Len(chars)), sep)

\* str.replace('$', ''): the first '$' only
removeDollar(chars) ==
  IF ~includes(chars, "$") THEN chars
  ELSE LET p == IndexOf(chars, "$")
       IN SubSeq(chars, 1, p - 1) \o SubSeq(chars, p + 1, Len(chars))

\* lines 50-56: the text of the year, << >> when there is none (null,
\* undefined and '' are all rejected by !year)
yearOf(exDate) ==
  IF includes(exDate, "/")
    THEN LET parts == split(exDate, "/")
         IN IF Len(parts) >= 3 THEN parts[3] ELSE << >>
  ELSE IF includes(exDate, "-") THEN split(exDate, "-")[1]
  ELSE << >>

\* line 61: parseFloat(amountStr.replace('$', '')) || 0
amountOf(amountStr) ==
  LET a == ParseFloatChars(removeDollar(amountStr))
  IN IF a.nan THEN 0 ELSE a.v

\* parseInt of a string: the value of its leading digits, NaN without any
parseInt(chars) ==
  LET end == DigitsEnd(chars, 1)
  IN IF end = 0 THEN NaN ELSE [nan |-> FALSE, v |-> DigitsValue(chars, 1, end)]

\* the position of a key among the properties of an object, 0 when absent
KeyAt(obj, key) ==
  IF \E k \in 1..Len(obj) : obj[k].key = key
    THEN CHOOSE k \in 1..Len(obj) : obj[k].key = key
    ELSE 0

\* byYear[year] = amount: the earlier amounts of the year are lost
addToYear_overwrite(obj, year, amount) ==
  LET at == KeyAt(obj, year)
  IN IF at = 0 THEN Append(obj, [key |-> year, value |-> amount])
     ELSE [obj EXCEPT ![at].value = amount]

\* line 65: byYear[year] = (byYear[year] || 0) + amount; an object is the
\* list of its properties in the order of their creation
addToYear(obj, year, amount) ==
  LET at == KeyAt(obj, year)
  IN IF at = 0 THEN Append(obj, [key |-> year, value |-> amount])
     ELSE [obj EXCEPT ![at].value = @ + amount]

\* lines 41-66: the forEach over the rows
RECURSIVE byYear(_)
byYear(rows) ==
  IF rows = << >> THEN << >>
  ELSE LET acc == byYear(SubSeq(rows, 1, Len(rows) - 1))
           row == rows[Len(rows)]
           year == yearOf(row.exOrEffDate)
           amount == amountOf(row.amount)
       IN IF row.exOrEffDate = << >> \/ row.amount = << >> THEN acc
          ELSE IF year = << >> \/ Len(year) # 4 THEN acc
          ELSE IF amount <= 0 THEN acc
          ELSE addToYear(acc, year, amount)

\* a key that is the decimal text of an array index: no sign, no leading 0
IntegerKey(key) ==
  /\ key # << >>
  /\ \A k \in 1..Len(key) : key[k] \in Digits
  /\ Len(key) > 1 => key[1] # "0"

\* a stable insertion of the pair p by ascending rank; a rank that is NaN
\* compares as equal to every other
InsertByRank(sorted, p) ==
  LET at == Cardinality({k \in 1..Len(sorted) :
                           \/ sorted[k].rank.nan
                           \/ p.rank.nan
                           \/ sorted[k].rank.v <= p.rank.v})
  IN SubSeq(sorted, 1, at) \o <<p>> \o SubSeq(sorted, at + 1, Len(sorted))

RECURSIVE SortPairs(_)
SortPairs(pairs) ==
  IF pairs = << >> THEN << >>
  ELSE InsertByRank(SortPairs(SubSeq(pairs, 1, Len(pairs) - 1)),
                    pairs[Len(pairs)])

\* list.sort((a, b) => parseInt(a's text) - parseInt(b's text)), texts[k]
\* being the text of list[k]
SortByRank(list, texts) ==
  LET sorted == SortPairs([k \in 1..Len(list) |->
                             [rank |-> parseInt(texts[k]),
                              item |-> list[k]]])
  IN [k \in 1..Len(sorted) |-> sorted[k].item]

KeysOf(obj) == [k \in 1..Len(obj) |-> obj[k].key]

\* Object.entries: the integer keys in ascending order, then the other keys
\* in the order of their creation
ObjectEntries(obj) ==
  LET integers == SelectSeq(obj, LAMBDA e : IntegerKey(e.key))
  IN SortByRank(integers, KeysOf(integers)) \o
       SelectSeq(obj, LAMBDA e : ~IntegerKey(e.key))

DigitChar(d) == <<"0", "1", "2", "3", "4", "5", "6", "7", "8", "9">>[d + 1]

\* the decimal text of a natural number
RECURSIVE NatChars(_)
NatChars(n) ==
  IF n < 10 THEN <<DigitChar(n)>>
  ELSE NatChars(n \div 10) \o <<DigitChar(n % 10)>>

\* line 72: `$${amount.toFixed(2)}`
dollars(cents) ==
  <<"$">> \o NatChars(cents \div 100) \o
    <<".", DigitChar((cents % 100) \div 10), DigitChar(cents % 10)>>

\* lines 35-75
parseDividendHistory(d) ==
  IF d.kind # "rows" THEN << >>
  ELSE LET entries == ObjectEntries(byYear(d.rows))
           mapped == [k \in 1..Len(entries) |->
                        [year |-> entries[k].key,
                         amount |-> dollars(entries[k].value)]]
       IN SortByRank(mapped, [k \in 1..Len(mapped) |-> mapped[k].year])

\* the rows the Data Source answers with, and for each what it stands for:
\* its year (0 for a date the function does not read a year from) and its
\* amount in hundredths
HistoryTable ==
  << [exOrEffDate |-> <<"0", "3", "/", "1", "5", "/", "2", "0", "2", "1">>,
      amount |-> <<"$", "0", ".", "2", "5">>, year |-> 2021, cents |-> 25],
     [exOrEffDate |-> <<"2", "0", "2", "1", "-", "0", "6", "-", "1", "5">>,
      amount |-> <<"$", "0", ".", "5", "0">>, year |-> 2021, cents |-> 50],
     [exOrEffDate |-> <<"1", "2", "/", "0", "1", "/", "2", "0", "2", "0">>,
      amount |-> <<"$", "1", ".", "0", "0">>, year |-> 2020, cents |-> 100],
     [exOrEffDate |-> <<"2", "0", "1", "9", "-", "0", "1", "-", "0", "2">>,
      amount |-> <<"0", ".", "1">>, year |-> 2019, cents |-> 10],
     [exOrEffDate |-> <<"0", "9", "/", "3", "0", "/", "2", "0", "1", "9">>,
      amount |-> <<"$", "1", "2", ".", "4", "5">>, year |-> 2019,
      cents |-> 1245],
     [exOrEffDate |-> <<"0", "3", "/", "1", "5", "/", "2", "0", "2", "1">>,
      amount |-> << >>, year |-> 2021, cents |-> 0],
     [exOrEffDate |-> << >>,
      amount |-> <<"$", "0", ".", "2", "5">>, year |-> 0, cents |-> 25],
     [exOrEffDate |-> <<"N", "/", "A">>,
      amount |-> <<"$", "0", ".", "2", "5">>, year |-> 0, cents |-> 25],
     [exOrEffDate |-> <<"1", "/", "2", "/", "2", "1">>,
      amount |-> <<"$", "0", ".", "2", "5">>, year |-> 0, cents |-> 25],
     [exOrEffDate |-> <<"1", "2", "/", "0", "1", "/", "2", "0", "2", "0">>,
      amount |-> <<"$", "0", ".", "0", "0">>, year |-> 2020, cents |-> 0],
     [exOrEffDate |-> <<"2", "0", "2", "2", "-", "0", "1", "-", "0", "2">>,
      amount |-> <<"N", "/", "A">>, year |-> 2022, cents |-> 0],
     [exOrEffDate |-> <<"2", "0", "2", "2", "-", "0", "1", "-", "0", "2">>,
      amount |-> <<"-", "0", ".", "1", "0">>, year |-> 2022, cents |-> -10] >>

HistoryRow(k) ==
  [exOrEffDate |-> HistoryTable[k].exOrEffDate,
   amount |-> HistoryTable[k].amount]

\* the dividends object whose k-th row is row number pick[k] of the table
HistoryInput(pick) ==
  [kind |-> "rows", rows |-> [k \in 1..Len(pick) |-> HistoryRow(pick[k])]]

InitHistory ==
  /\ source = [sym \in Symbols |-> Bundle(NullDiv, NullProfile, NullPeg,
                                           NullFin)]
  /\ InitRunVars
  /\ InitRetryVars
  /\ inFlight = {}
  /\ results = << >>
  /\ savedStocks = << >>
  /\ priorStocks = << >>
  /\ epc = "idle"
  /\ requests = << >>
  /\ pending = {}
  /\ entityResult = Null
  /\ lastOp = "none"
  /\ view = EmptyState
  /\ viewAfterSave = EmptyState
  /\ pauseMs = 0
  /\ collected = << >>
  /\ statistics = NoStatistics
  /\ \/ \E n \in 0..MaxHistoryRows :
          \E pick \in [1..n -> 1..Len(HistoryTable)] :
            dividends = HistoryInput(pick)
     \/ dividends \in {NoDividends, [kind |-> "norows", rows |-> << >>]}
  /\ dividendHistory = NotParsed

\* part_000 line 151
ParseHistory ==
  /\ ~dividendHistory.parsed
  /\ dividendHistory' =
       [parsed |-> TRUE, entries |-> parseDividendHistory(dividends)]
  /\ UNCHANGED <<runVars, tallyVars, retryVars, runLogVars, batchVars,
                 entityVars, storeVars, paceVars, statVars, dividends>>

NextHistory == ParseHistory

SpecHistory == InitHistory /\ [][NextHistory]_vars

(***************************************************************************)
(* Properties of parseDividendHistory                                      *)
(***************************************************************************)
\* what a row of the input stands for
MeaningOf(row) ==
  HistoryTable[CHOOSE k \in 1..Len(HistoryTable) : HistoryRow(k) = row]

\* the rows of the input that have a four-digit year and a positive amount
PayingRows ==
  {k \in 1..Len(dividends.rows) :
     /\ MeaningOf(dividends.rows[k]).year > 0
     /\ MeaningOf(dividends.rows[k]).cents > 0}

PayingYears == {MeaningOf(dividends.rows[k]).year : k \in PayingRows}

RECURSIVE SumCents(_)
SumCents(rowSet) ==
  IF rowSet = {} THEN 0
  ELSE LET k == CHOOSE x \in rowSet : TRUE
       IN MeaningOf(dividends.rows[k]).cents + SumCents(rowSet \ {k})

EntryYear(e) == DigitsValue(e.year, 1, Len(e.year))

\* C34: parseDividendHistory returns one entry for every four-digit year
\* that has a row of positive amount and no other entry; the years of the
\* list are unique and ascending; the amount of an entry is '$' and the
\* sum of the positive amounts of the rows of its year.
C34_OneEntryPerYear ==
  dividendHistory.parsed =>
    LET es == dividendHistory.entries
    IN /\ Len(es) = Cardinality(PayingYears)
       /\ {EntryYear(es[k]) : k \in 1..Len(es)} = PayingYears
       /\ \A j, k \in 1..Len(es) :
            j < k => EntryYear(es[j]) < EntryYear(es[k])
       /\ \A k \in 1..Len(es) :
            /\ Len(es[k].year) = 4
            /\ es[k].amount[1] = "$"
            /\ ParseFloatChars(Tail(es[k].amount)).v =
                 SumCents({r \in PayingRows :
                             MeaningOf(dividends.rows[r]).year =
                               EntryYear(es[k])})

\* a history of two years or more, a later year read before an earlier
\* one and two rows merged into one year
C34_Witness ==
  /\ dividendHistory.parsed
  /\ Len(dividendHistory.entries) >= 2
  /\ Cardinality(PayingRows) > Len(dividendHistory.entries)
  /\ \E j, k \in PayingRows :
       /\ j < k
       /\ MeaningOf(dividends.rows[j]).year >
            MeaningOf(dividends.rows[k]).year

(***************************************************************************)
(* Properties of the request counters of fetchWithRetry (part_002)         *)
(***************************************************************************)
\* C35: whenever a fetchWithRetry call of part_002 has returned, every
\* call counted in totalRequests is counted once, as a success or as a
\* failure: successRequests + failedRequests = totalRequests, and
\* successRequests does not exceed totalRequests.
C35_CountersAddUp ==
  (variant = "part_002" /\ rpc = "returned") =>
    /\ successRequests + failedRequests = totalRequests
    /\ successRequests <= totalRequests

(***************************************************************************)
(* Properties of the report across stops and resumes (part_002)            *)
(***************************************************************************)
\* C36: the record list of a written report never holds two records with
\* the same symbol, whatever stops, stale checkpoints and resumes came
\* before it.
C36_NoDuplicateSymbols ==
  ReportWritten =>
    \A j, k \in 1..Len(outputFile.stocks) :
      outputFile.stocks[j].symbol = outputFile.stocks[k].symbol => j = k

\* the entities whose primary fetch ends without a payload
FailedSymbols == {sym \in Symbols : outcomeOf(source[sym]) = "Failed"}

FailedBundle == Bundle(NullDiv, NullProfile, NullPeg, NullFin)

PayerBundle ==
  CHOOSE b \in Sources : b.div.kind = "data" /\ b.peg.kind = "data"

\* the primary call fails for the rows of odd number, the others pay
LiveSource ==
  [sym \in Symbols |->
     IF \E k \in 1..NumStocks : k % 2 = 1 /\ Listing[k].symbol = sym
       THEN FailedBundle ELSE PayerBundle]

\* the records of the first n rows of the listing
LiveRecords(n) ==
  PushResults(<< >>,
              [k \in 1..NumStocks |->
                 fetchStockData(Listing[k], LiveSource[Listing[k].symbol])],
              1, n)

\* what saveProgress wrote after the n-th row, age hours ago
LiveCheckpoint(n, age) ==
  [progress |-> ProgressDoc("ok", age, {Listing[k].symbol : k \in 1..n},
                            Len(LiveRecords(n))),
   partial |-> writePartial(NoPartial, LiveRecords(n))]

LiveCheckpoints ==
  {[progress |-> NoProgress, partial |-> NoPartial]} \cup
    {LiveCheckpoint(n, age) :
       n \in {m \in 1..NumStocks : m % SAVE_INTERVAL = 0},
       age \in {0, StaleHours}}

\* the process has just been started (lines 45-49)
InitLive ==
  /\ source = LiveSource
  /\ \E c \in LiveCheckpoints :
       progressFile = c.progress /\ partialFile = c.partial
  /\ outputFile = NoOutput
  /\ pc = "listing"
  /\ allStocks = << >>
  /\ processedSymbols = {}
  /\ dividendStocks = << >>
  /\ remainingStocks = << >>
  /\ i = 0
  /\ totalRequests = 0
  /\ successRequests = 0
  /\ failedRequests = 0
  /\ runs = 1
  /\ status = [sym \in Symbols |-> "Pending"]
  /\ saved = FALSE
  /\ lastStop = "none"
  /\ crashStocks = << >>
  /\ clean = TRUE
  /\ resumed = FALSE
  /\ reportRun = 0
  /\ log = << >>
  /\ loadedSymbols = {}
  /\ InitRetryVars
  /\ InitAuxVars

\* line 449: fetchWithRetry is called for the listing
ListingCall ==
  /\ pc = "listing"
  /\ rpc = "idle"
  /\ BeginCall

\* the attempts of the listing call
ListingAttempt ==
  /\ pc = "listing"
  /\ \/ Request
     \/ Classify
     \/ Catch

\* lines 449-458: the call has returned; no payload or no rows throws into
\* the catch of line 589
ListingSettled ==
  /\ pc = "listing"
  /\ rpc = "returned"
  /\ IF callResult = "payload"
       THEN \E rows \in {Listing, << >>} :
              /\ allStocks' = rows
              /\ pc' = IF rows = << >> THEN "aborted" ELSE "load"
       ELSE /\ allStocks' = << >>
            /\ pc' = "aborted"
  /\ log' = Append(log, Op("listing", ""))
  /\ rpc' = "idle"
  /\ attempt' = 0
  /\ outcomes' = << >>
  /\ sleeps' = << >>
  /\ cooldowns' = 0
  /\ callResult' = "none"
  /\ UNCHANGED <<source, progressFile, partialFile, outputFile,
                 processedSymbols, dividendStocks, remainingStocks, i, runs,
                 status, saved, lastStop, crashStocks, clean, resumed,
                 reportRun, tallyVars, variant, consecutiveErrors,
                 currentUAIndex, uaUsed, calls, loadedSymbols, auxVars>>

NextLive ==
  \/ ListingCall
  \/ ListingAttempt
  \/ ListingSettled
  \/ LoadProgress
  \/ FilterRemaining
  \/ LoopHead
  \/ SettleEntity
  \/ SaveProgressFile
  \/ SavePartialFile
  \/ Pause
  \/ WriteReport
  \/ ClearProgressFile
  \/ ClearPartialFile

\* the process keeps running: a step it can take is taken, and every
\* attempt is answered or times out
SpecLive == InitLive /\ [][NextLive]_vars /\ WF_vars(NextLive)

(***************************************************************************)
(* Properties of termination                                               *)
(***************************************************************************)
FetchesOf(sym) ==
  Cardinality({k \in 1..Len(log) : log[k] = Op("fetch", sym)})

\* C38: a fetchWithRetry call makes at most RETRY_TIMES + 1 attempts, no
\* entity is fetched twice by the process, the process ends: it aborts, or
\* it is done with the report written and the checkpoint files cleared.
C38_RunTerminates ==
  /\ [](Len(outcomes) <= RETRY_TIMES + 1)
  /\ [](\A sym \in Symbols : FetchesOf(sym) <= 1)
  /\ [](pc = "done" =>
         /\ outputFile.state = "ok"
         /\ progressFile = NoProgress
         /\ partialFile = NoPartial)
  /\ <>(pc \in {"done", "aborted"})

\* a resumed process whose listing call needed every attempt is done,
\* having fetched an entity
C38_Witness ==
  /\ pc = "done"
  /\ resumed
  /\ Len(uaUsed) = RETRY_TIMES + 1
  /\ \E sym \in Symbols : FetchesOf(sym) = 1

(***************************************************************************)
(* Properties of the growth fields of a record                             *)
(***************************************************************************)
\* the analyst source answered with a growth value that is used
AnalystGaveRate(peg) == peg.kind = "data" /\ ~Falsy(peg.y)

\* C39: in the record fetchStockData returns, growthRate is 'N/A' exactly
\* when growthSource is ''; the financials request is issued only after
\* the peg request and only when the analyst source gave no growth rate.
C39_GrowthFieldsAgree ==
  /\ (epc = "done" /\ ~entityResult.isNull) =>
       /\ entityResult.growthRate = C_NA <=> entityResult.growthSource = ""
       /\ entityResult.growthRate # NoValue
  /\ \A k \in 1..Len(requests) :
       requests[k] = "financials" =>
         /\ ~AnalystGaveRate(source[entity.symbol].peg)
         /\ \E j \in 1..(k - 1) : requests[j] = "peg"
  /\ (epc = "done" /\ ~entityResult.isNull
        /\ AnalystGaveRate(source[entity.symbol].peg)) =>
       entityResult.growthSource = "Analyst Forecast"

\* a record whose growth rate came from the financials
C39_Witness ==
  /\ epc = "done"
  /\ ~entityResult.isNull
  /\ "financials" \in SeqSet(requests)
  /\ entityResult.growthRate # C_NA
  /\ entityResult.growthSource = "4yr Revenue CAGR"
====
